---------------------------- MODULE Spec2Model ----------------------------
(* Controlador de reservas del Parque Berlin (src/controlador.c) y los      *)
(* mensajes que le envian los agentes (src/agente.c).                       *)
(*                                                                          *)
(* El controlador tiene dos hilos: hiloReloj, que avanza horaActual, y      *)
(* hiloRecibirPeticiones, que lee un MensajeAgente y lo atiende.  Cada paso *)
(* del modelo es una region del codigo entre dos puntos en que el otro hilo *)
(* puede intercalarse: las secciones bajo mutexReservas son atomicas.       *)
(*                                                                          *)
(* Spec observa el nucleo de reservas con un entorno que entrega mensajes   *)
(* en cualquier momento.  SpecCanal anade el hilo principal, los pipes con  *)
(* nombre y los procesos agente, con los mismos pasos del controlador.      *)
EXTENDS Integers, Sequences, FiniteSets, TLC

(***************************************************************************)
(* Constantes del programa                                                 *)
(***************************************************************************)
MAX_AGENTES == 50
HORAS_MIN == 7
HORAS_MAX == 19
MAX_HORAS == HORAS_MAX - HORAS_MIN + 1
DURACION_RESERVA == 2

(***************************************************************************)
(* Cotas del modelo y conjuntos de entradas                                *)
(***************************************************************************)
\* Numero maximo de solicitudes de reserva atendidas en una ejecucion.
MaxSolicitudes == 2

\* Numero de elementos del arreglo de reservas en SpecAlmacen.  El programa
\* declara Reserva reservas[1000]; el codigo que anota una reserva no compara
\* numReservas con ese numero ni con ningun otro, y el modelo reduce el
\* arreglo a este tamano para que llenarlo quepa en una ejecucion corta.
CapacidadReservas == 3

\* Parametros de linea de comandos (-i, -f, -t) ya validados por
\* procesarArgumentos: horas en [7,19], horaInicial < horaFinal, aforo > 0.
Configuraciones ==
    { [horaInicial |-> 10, horaFinal |-> 13, aforoMaximo |-> 100],
      [horaInicial |-> 18, horaFinal |-> 19, aforoMaximo |-> 100] }

\* Valores que un agente puede poner en el registro (atoi de su archivo).
Personas == {-50, 50, 60, 150}
Familias == {"A"}
Agentes == {"agente1"}

\* Entradas de SpecCanal: una jornada de cuatro horas, dos agentes con una
\* linea cada uno en su archivo de solicitudes (familia, hora, personas).
ConfiguracionesCanal ==
    { [horaInicial |-> 16, horaFinal |-> 19, aforoMaximo |-> 100] }

AgentesCanal == {"agente1", "agente2"}

Archivos ==
    [a \in AgentesCanal |->
        IF a = "agente1"
        THEN << [nombreFamilia |-> "A", horaSolicitada |-> 16, numPersonas |-> 60] >>
        ELSE << [nombreFamilia |-> "B", horaSolicitada |-> 16, numPersonas |-> 60] >>]

VARIABLES
    horaInicial, horaFinal, aforoMaximo,    \* configuracion
    horaActual,
    ocupacionPorHora,                       \* [0..MAX_HORAS-1 -> Int]
    reservas,                               \* reservas[1..numReservas]
    agentesRegistrados,                     \* agentesRegistrados[1..numAgentes]
    solicitudesNegadas, solicitudesAceptadas, solicitudesReprogramadas,
    finalizarServidor,
    pcReloj,                                \* posicion de hiloReloj
    pcPeticiones,                           \* posicion de hiloRecibirPeticiones
    msg,                                    \* MensajeAgente leido
    resp,                                   \* RespuestaControlador en construccion
    horaAlternativa,                        \* local de procesarSolicitudReserva
    antes,                                  \* estado observado al atender msg
    pcMain,                                 \* posicion de main tras crear los hilos
    pipeRecibe,                             \* FIFO de entrada del controlador
    fdPipeAgente,                           \* pipe de respuesta abierto para escribir
    agentes,                                \* procesos agente
    intruso,                                \* proceso ajeno que escribe en el FIFO
    mutex,                                  \* hilo que tiene tomado cada pthread_mutex_t
    hOcupacion                              \* indice del bucle que actualiza la ocupacion

\* Horas que un agente puede solicitar: fuera del rango de operacion por
\* ambos lados y, dentro, desde antes de horaInicial hasta despues de horaFinal.
HorasSolicitadas ==
    {HORAS_MIN - 1, HORAS_MAX + 1} \cup ((horaInicial - 1)..(horaFinal + 1))

\* Lo que Spec no observa: hilo principal, pipes y procesos agente.
canal == << pcMain, pipeRecibe, fdPipeAgente, agentes, intruso >>

vars == << horaInicial, horaFinal, aforoMaximo, horaActual, ocupacionPorHora,
           reservas, agentesRegistrados, solicitudesNegadas,
           solicitudesAceptadas, solicitudesReprogramadas, finalizarServidor,
           pcReloj, pcPeticiones, msg, resp, horaAlternativa, antes, canal,
           mutex, hOcupacion >>

config == << horaInicial, horaFinal, aforoMaximo >>

\* Los tres mutex del controlador y la variable local del bucle de ocupacion;
\* fuera de una seccion critica los mutex estan libres.
Mutexes == {"mutexReservas", "mutexAgentes", "mutexEstadisticas"}
cerrojos == << mutex, hOcupacion >>
estadisticas == << solicitudesNegadas, solicitudesAceptadas, solicitudesReprogramadas >>

numReservas == Len(reservas)
numAgentes == Len(agentesRegistrados)

(***************************************************************************)
(* Funciones de utilidad                                                   *)
(***************************************************************************)
\* Variante defectuosa: olvida el limite inferior del rango.
validarHoraSinMinimo(hora) == hora <= HORAS_MAX

validarHora(hora) == hora >= HORAS_MIN /\ hora <= HORAS_MAX

indiceHora(hora) == hora - HORAS_MIN

(***************************************************************************)
(* Mensajes y respuestas                                                   *)
(***************************************************************************)
\* snprintf(pipeRespuesta, ..., "pipe_%s_%d", nombreAgente, getpid())
PipeDe(agente) == <<"pipe", agente>>

MensajeRegistro(a) ==
    [tipo |-> "MSG_REGISTRO", nombreAgente |-> a, pipeRespuesta |-> PipeDe(a),
     nombreFamilia |-> "", horaSolicitada |-> 0, numPersonas |-> 0]

MensajeSolicitud(a, f, h, n) ==
    [tipo |-> "MSG_SOLICITUD_RESERVA", nombreAgente |-> a,
     pipeRespuesta |-> PipeDe(a), nombreFamilia |-> f,
     horaSolicitada |-> h, numPersonas |-> n]

MensajeFin(a) ==
    [tipo |-> "MSG_FIN_AGENTE", nombreAgente |-> a, pipeRespuesta |-> <<>>,
     nombreFamilia |-> "", horaSolicitada |-> 0, numPersonas |-> 0]

SinMensaje ==
    [tipo |-> "", nombreAgente |-> "", pipeRespuesta |-> <<>>,
     nombreFamilia |-> "", horaSolicitada |-> 0, numPersonas |-> 0]

\* Un registro completo cuyo campo tipo no es ninguno de los tres del enum.
MensajeDesconocido == [SinMensaje EXCEPT !.tipo = "DESCONOCIDO"]

\* sizeof(MensajeAgente) bytes hechos con el final de un registro y el
\* principio del siguiente: el tipo es el que caiga en los cuatro primeros
\* bytes, y los nombres no corresponden a ningun agente ni pipe.
MensajeBasura(t) ==
    [tipo |-> t, nombreAgente |-> "basura", pipeRespuesta |-> <<"basura">>,
     nombreFamilia |-> "basura", horaSolicitada |-> 0, numPersonas |-> 0]

TiposBasura == {"MSG_REGISTRO", "DESCONOCIDO"}

\* Lo que hay en el FIFO: registros de sizeof(MensajeAgente) bytes o trozos
\* mas cortos.
Completo(m) == [completo |-> TRUE, m |-> m]
Fragmento(m) == [completo |-> FALSE, m |-> m]

\* Lo que escribe un proceso que no respeta el protocolo.
RegistrosIntruso == { Fragmento(MensajeDesconocido), Completo(MensajeDesconocido) }

Respuesta(t, asignada, actual, texto) ==
    [tipo |-> t, horaAsignada |-> asignada, horaActual |-> actual, mensaje |-> texto]

SinRespuesta == Respuesta("", 0, 0, "")

\* leidas cuenta los MSG_SOLICITUD_RESERVA despachados desde el arranque.
SinAntes == [horaActual |-> 0, horaBusqueda |-> 0, ocupacionPorHora |-> <<>>,
             reservas |-> <<>>, negadas |-> 0, aceptadas |-> 0, reprogramadas |-> 0,
             leidas |-> 0]

\* Campos de una reserva que el reloj no toca.
SinActiva(rs) ==
    [i \in 1..Len(rs) |-> [nombreFamilia |-> rs[i].nombreFamilia,
                           nombreAgente |-> rs[i].nombreAgente,
                           horaInicio |-> rs[i].horaInicio,
                           horaFin |-> rs[i].horaFin,
                           numPersonas |-> rs[i].numPersonas]]

(***************************************************************************)
(* Estado inicial: main tras procesarArgumentos e inicializarServidor      *)
(***************************************************************************)
\* Valores iniciales de las globales y horaActual = horaInicial.
inicializarServidor(c) ==
    /\ horaInicial = c.horaInicial
    /\ horaFinal = c.horaFinal
    /\ aforoMaximo = c.aforoMaximo
    /\ horaActual = c.horaInicial
    /\ ocupacionPorHora = [i \in 0..(MAX_HORAS - 1) |-> 0]
    /\ reservas = <<>>
    /\ agentesRegistrados = <<>>
    /\ solicitudesNegadas = 0
    /\ solicitudesAceptadas = 0
    /\ solicitudesReprogramadas = 0
    /\ finalizarServidor = FALSE
    /\ pcReloj = "bucle"
    /\ msg = SinMensaje
    /\ resp = SinRespuesta
    /\ horaAlternativa = 0
    /\ antes = SinAntes
    /\ mutex = [m \in Mutexes |-> "libre"]
    /\ hOcupacion = 0

\* El FIFO de entrada recien creado por mkfifo, y el mismo ya abierto por
\* hiloRecibirPeticiones.
\* reabierto recuerda si el oyente ha reabierto el FIFO tras un fin de datos.
PipeCreado ==
    [existe |-> TRUE, lector |-> FALSE, huboEscritor |-> FALSE,
     escritores |-> {}, datos |-> <<>>, reabierto |-> FALSE]

PipeAbierto == [PipeCreado EXCEPT !.lector = TRUE]

\* Un agente tras crear su pipe de respuesta, a punto de registrarse.
AgenteInicial(archivo) ==
    [pc |-> "enviar_abrir", fase |-> "registro", pendientes |-> archivo,
     pipe |-> TRUE, buzon |-> <<>>]

\* Los hilos ya creados, main en pthread_join(tidReloj).
CanalInicial(pipe) ==
    /\ pcMain = "join_reloj"
    /\ pipeRecibe = pipe
    /\ fdPipeAgente = <<>>
    /\ agentes = [a \in AgentesCanal |-> AgenteInicial(Archivos[a])]
    /\ intruso = "fuera"

\* Spec empieza con el oyente ya en su bucle.
Init ==
    /\ \E c \in Configuraciones : inicializarServidor(c)
    /\ pcPeticiones = "bucle"
    /\ CanalInicial(PipeAbierto)

\* SpecCanal empieza con el oyente a punto de abrir el FIFO de entrada.
InitCanal ==
    /\ \E c \in ConfiguracionesCanal : inicializarServidor(c)
    /\ pcPeticiones = "abrir"
    /\ CanalInicial(PipeCreado)


(***************************************************************************)
(* Disponibilidad y busqueda de hora alternativa (bajo mutexReservas)      *)
(***************************************************************************)
\* for (h = desde; h < hora + DURACION_RESERVA && validarHora(h); h++)
\*     if (ocupacionPorHora[indiceHora(h)] + numPersonas > aforoMaximo) return 0;
RECURSIVE verificarDesde(_, _, _, _)
verificarDesde(ocup, h, hora, numPersonas) ==
    IF h < hora + DURACION_RESERVA /\ validarHora(h)
    THEN IF ocup[indiceHora(h)] + numPersonas > aforoMaximo
         THEN FALSE
         ELSE verificarDesde(ocup, h + 1, hora, numPersonas)
    ELSE TRUE

\* Variante defectuosa: solo mira la primera hora de la reserva.
verificarSoloPrimeraHora(ocup, hora, numPersonas) ==
    ocup[indiceHora(hora)] + numPersonas <= aforoMaximo

verificarDisponibilidad(ocup, hora, numPersonas) ==
    verificarDesde(ocup, hora, hora, numPersonas)

\* Bucle interior de buscarHoraAlternativa: offset = desde..DURACION_RESERVA-1.
RECURSIVE disponibleDesde(_, _, _, _)
disponibleDesde(ocup, h, offset, numPersonas) ==
    IF offset < DURACION_RESERVA
    THEN IF \/ ~validarHora(h + offset)
            \/ ocup[indiceHora(h + offset)] + numPersonas > aforoMaximo
         THEN FALSE
         ELSE disponibleDesde(ocup, h, offset + 1, numPersonas)
    ELSE TRUE

\* Bucle exterior: for (h = horaActual; h <= horaFinal - DURACION_RESERVA + 1; h++)
RECURSIVE buscarDesde(_, _, _)
buscarDesde(ocup, h, numPersonas) ==
    IF h <= horaFinal - DURACION_RESERVA + 1
    THEN IF disponibleDesde(ocup, h, 0, numPersonas)
         THEN [encontrada |-> TRUE, hora |-> h]
         ELSE buscarDesde(ocup, h + 1, numPersonas)
    ELSE [encontrada |-> FALSE, hora |-> 0]

\* Variante defectuosa: la busqueda empieza en la hora siguiente a la actual.
buscarDesdeHoraSiguiente(ocup, desde, numPersonas) ==
    buscarDesde(ocup, desde + 1, numPersonas)

\* desde es el valor de horaActual leido al entrar, con el mutex tomado.
buscarHoraAlternativa(ocup, desde, numPersonas) ==
    buscarDesde(ocup, desde, numPersonas)

(***************************************************************************)
(* Registro de una reserva (bajo mutexReservas)                            *)
(***************************************************************************)
\* for (h = hora; h < hora + DURACION_RESERVA && validarHora(h); h++)
\*     ocupacionPorHora[indiceHora(h)] += numPersonas;
RECURSIVE ocuparDesde(_, _, _, _)
ocuparDesde(ocup, h, hora, numPersonas) ==
    IF h < hora + DURACION_RESERVA /\ validarHora(h)
    THEN ocuparDesde([ocup EXCEPT ![indiceHora(h)] = @ + numPersonas],
                     h + 1, hora, numPersonas)
    ELSE ocup

actualizarOcupacion(ocup, hora, numPersonas) ==
    ocuparDesde(ocup, hora, hora, numPersonas)

nuevaReserva(m, hora) ==
    [nombreFamilia |-> m.nombreFamilia,
     nombreAgente |-> m.nombreAgente,
     horaInicio |-> hora,
     horaFin |-> hora + DURACION_RESERVA - 1,
     numPersonas |-> m.numPersonas,
     activa |-> FALSE]

(***************************************************************************)
(* hiloReloj                                                               *)
(***************************************************************************)
\* Primer bucle de avanzarHora: activa las reservas que empiezan en hora.
activarReservas(rs, hora) ==
    [i \in 1..Len(rs) |->
        IF rs[i].horaInicio = hora /\ ~rs[i].activa
        THEN [rs[i] EXCEPT !.activa = TRUE] ELSE rs[i]]

\* Variante defectuosa: el segundo bucle no desactiva ninguna reserva.
desactivarNinguna(rs, hora) == rs

\* Segundo bucle de avanzarHora: desactiva las que terminaron antes de hora.
desactivarReservas(rs, hora) ==
    [i \in 1..Len(rs) |->
        IF rs[i].horaFin < hora /\ rs[i].activa
        THEN [rs[i] EXCEPT !.activa = FALSE] ELSE rs[i]]

\* Variante defectuosa: el bucle termina una hora antes (< en vez de <=).
RelojBucleSinUltimaHora ==
    /\ pcReloj = "bucle"
    /\ IF horaActual < horaFinal /\ ~finalizarServidor
       THEN /\ pcReloj' = "durmiendo"
            /\ UNCHANGED finalizarServidor
       ELSE /\ pcReloj' = "terminado"
            /\ finalizarServidor' = TRUE
    /\ UNCHANGED << config, cerrojos, horaActual, ocupacionPorHora, reservas,
                    agentesRegistrados, estadisticas, pcPeticiones, msg, resp,
                    horaAlternativa, antes >>

\* while (horaActual <= horaFinal && !finalizarServidor) { sleep(...); ... }
\* y, al salir del bucle, finalizarServidor = 1.
RelojBucle ==
    /\ pcReloj = "bucle"
    /\ IF horaActual <= horaFinal /\ ~finalizarServidor
       THEN /\ pcReloj' = "durmiendo"
            /\ UNCHANGED finalizarServidor
       ELSE /\ pcReloj' = "terminado"
            /\ finalizarServidor' = TRUE
    /\ UNCHANGED << config, cerrojos, horaActual, ocupacionPorHora, reservas,
                    agentesRegistrados, estadisticas, pcPeticiones, msg, resp,
                    horaAlternativa, antes >>

\* Variante defectuosa: el reloj salta dos horas en cada avance.
avanzarHoraDosHoras ==
    /\ pcReloj = "durmiendo"
    /\ horaActual' = horaActual + 2
    /\ reservas' = desactivarReservas(activarReservas(reservas, horaActual + 2),
                                      horaActual + 2)
    /\ pcReloj' = "bucle"
    /\ UNCHANGED << config, cerrojos, ocupacionPorHora, agentesRegistrados, estadisticas,
                    finalizarServidor, pcPeticiones, msg, resp, horaAlternativa,
                    antes >>

\* Variante defectuosa: al avanzar la hora se descuentan de la ocupacion las
\* personas de las reservas que terminaron.
avanzarHoraLiberaCupo ==
    /\ pcReloj = "durmiendo"
    /\ horaActual' = horaActual + 1
    /\ reservas' = desactivarReservas(activarReservas(reservas, horaActual + 1),
                                      horaActual + 1)
    /\ ocupacionPorHora' =
          [i \in DOMAIN ocupacionPorHora |->
              IF i = indiceHora(horaActual) THEN 0 ELSE ocupacionPorHora[i]]
    /\ pcReloj' = "bucle"
    /\ UNCHANGED << config, cerrojos, agentesRegistrados, estadisticas,
                    finalizarServidor, pcPeticiones, msg, resp, horaAlternativa,
                    antes >>

\* Fin del sleep: avanzarHora() e imprimirEstadoHora() (que solo imprime).
avanzarHora ==
    /\ pcReloj = "durmiendo"
    /\ horaActual' = horaActual + 1
    /\ reservas' = desactivarReservas(activarReservas(reservas, horaActual + 1),
                                      horaActual + 1)
    /\ pcReloj' = "bucle"
    /\ UNCHANGED << config, cerrojos, ocupacionPorHora, agentesRegistrados, estadisticas,
                    finalizarServidor, pcPeticiones, msg, resp, horaAlternativa,
                    antes >>

\* SIGINT en cualquier momento antes de que el servidor haya terminado.
manejadorSigInt ==
    /\ ~finalizarServidor
    /\ finalizarServidor' = TRUE
    /\ UNCHANGED << config, cerrojos, horaActual, ocupacionPorHora, reservas,
                    agentesRegistrados, estadisticas, pcReloj, pcPeticiones,
                    msg, resp, horaAlternativa, antes >>

(***************************************************************************)
(* hiloRecibirPeticiones                                                   *)
(***************************************************************************)
\* Campo de resp que el codigo no inicializa antes de escribirlo: lo que
\* hubiera en la pila, que ningun agente lee en las respuestas de ese tipo.
Indeterminado == "indeterminado"

Observado ==
    [horaActual |-> horaActual, horaBusqueda |-> 0,
     ocupacionPorHora |-> ocupacionPorHora, reservas |-> SinActiva(reservas),
     negadas |-> solicitudesNegadas, aceptadas |-> solicitudesAceptadas,
     reprogramadas |-> solicitudesReprogramadas, leidas |-> antes.leidas + 1]

\* Variante defectuosa: el bucle del oyente no mira finalizarServidor.
PeticionesBucleSinBandera ==
    /\ pcPeticiones = "bucle"
    /\ pcPeticiones' = "select"
    /\ UNCHANGED << config, cerrojos, horaActual, ocupacionPorHora, reservas,
                    agentesRegistrados, estadisticas, finalizarServidor,
                    pcReloj, msg, resp, horaAlternativa, antes >>

\* Cabeza del bucle: while (!finalizarServidor) { select(...) ... }
PeticionesBucle ==
    /\ pcPeticiones = "bucle"
    /\ pcPeticiones' = IF finalizarServidor THEN "terminado" ELSE "select"
    /\ UNCHANGED << config, cerrojos, horaActual, ocupacionPorHora, reservas,
                    agentesRegistrados, estadisticas, finalizarServidor,
                    pcReloj, msg, resp, horaAlternativa, antes >>

\* select() devuelve 0 (un segundo sin datos) o -1: continue.
SelectTimeout ==
    /\ pcPeticiones = "select"
    /\ pcPeticiones' = "bucle"
    /\ UNCHANGED << config, cerrojos, horaActual, ocupacionPorHora, reservas,
                    agentesRegistrados, estadisticas, finalizarServidor,
                    pcReloj, msg, resp, horaAlternativa, antes >>

\* Variante defectuosa: registra sin mirar si queda sitio en el arreglo.
registrarAgenteSinLimite(m) ==
    /\ pcPeticiones = "select"
    /\ msg' = m
    /\ agentesRegistrados' =
          Append(agentesRegistrados,
                 [nombre |-> m.nombreAgente,
                  pipeRespuesta |-> m.pipeRespuesta, activo |-> TRUE])
    /\ resp' = Respuesta("RESP_HORA_ACTUAL", Indeterminado, horaActual,
                          "BIENVENIDO")
    /\ pcPeticiones' = "enviar"
    /\ UNCHANGED << config, cerrojos, horaActual, ocupacionPorHora, reservas, estadisticas,
                    finalizarServidor, pcReloj, horaAlternativa, antes >>

\* MSG_REGISTRO: registrarAgente(m) hasta tener resp lista.
registrarAgente(m) ==
    /\ pcPeticiones = "select"
    /\ msg' = m
    /\ agentesRegistrados' =
          IF numAgentes < MAX_AGENTES
          THEN Append(agentesRegistrados,
                      [nombre |-> m.nombreAgente,
                       pipeRespuesta |-> m.pipeRespuesta, activo |-> TRUE])
          ELSE agentesRegistrados
    /\ resp' = Respuesta("RESP_HORA_ACTUAL", Indeterminado, horaActual,
                          "BIENVENIDO")
    /\ pcPeticiones' = "enviar"
    /\ UNCHANGED << config, cerrojos, horaActual, ocupacionPorHora, reservas, estadisticas,
                    finalizarServidor, pcReloj, horaAlternativa, antes >>

\* Variante defectuosa: el fin de un agente se contesta con RESP_FIN_DIA.
procesarFinAgenteContestado ==
    /\ pcPeticiones = "select"
    /\ \E a \in Agentes : msg' = MensajeFin(a)
    /\ resp' = Respuesta("RESP_FIN_DIA", Indeterminado, horaActual, "FIN_DIA")
    /\ pcPeticiones' = "enviar"
    /\ UNCHANGED << config, cerrojos, horaActual, ocupacionPorHora, reservas,
                    agentesRegistrados, estadisticas, finalizarServidor,
                    pcReloj, horaAlternativa, antes >>

\* MSG_FIN_AGENTE: solo imprime.
procesarFinAgente ==
    /\ pcPeticiones = "select"
    /\ pcPeticiones' = "bucle"
    /\ UNCHANGED << config, cerrojos, horaActual, ocupacionPorHora, reservas,
                    agentesRegistrados, estadisticas, finalizarServidor,
                    pcReloj, msg, resp, horaAlternativa, antes >>

\* Variante: el tipo desconocido se cuenta como solicitud negada.
mensajeDesconocidoContado ==
    /\ pcPeticiones = "select"
    /\ pcPeticiones' = "bucle"
    /\ solicitudesNegadas' = solicitudesNegadas + 1
    /\ UNCHANGED << config, cerrojos, horaActual, ocupacionPorHora, reservas,
                    agentesRegistrados, solicitudesAceptadas,
                    solicitudesReprogramadas, finalizarServidor,
                    pcReloj, msg, resp, horaAlternativa, antes >>

\* default: del switch de procesarMensaje: solo escribe en stderr.
mensajeDesconocido ==
    /\ pcPeticiones = "select"
    /\ pcPeticiones' = "bucle"
    /\ UNCHANGED << config, cerrojos, horaActual, ocupacionPorHora, reservas,
                    agentesRegistrados, estadisticas, finalizarServidor,
                    pcReloj, msg, resp, horaAlternativa, antes >>

\* if (msg->numPersonas > aforoMaximo)
\* Variante defectuosa: la validacion del numero de personas no existe.
excedeAforoNunca(numPersonas) == FALSE

excedeAforo(numPersonas) == numPersonas > aforoMaximo

\* Variante defectuosa: la negacion se cuenta como reprogramacion.
NegarMalContada(texto) ==
    /\ solicitudesReprogramadas' = solicitudesReprogramadas + 1
    /\ resp' = Respuesta("RESP_RESERVA_NEGADA", Indeterminado, horaActual, texto)
    /\ pcPeticiones' = "enviar"
    /\ UNCHANGED << solicitudesAceptadas, solicitudesNegadas >>

\* Rama de negacion: solicitudesNegadas++ y resp = RESP_RESERVA_NEGADA.
Negar(texto) ==
    /\ solicitudesNegadas' = solicitudesNegadas + 1
    /\ resp' = Respuesta("RESP_RESERVA_NEGADA", Indeterminado, horaActual, texto)
    /\ pcPeticiones' = "enviar"
    /\ UNCHANGED << solicitudesAceptadas, solicitudesReprogramadas >>

\* MSG_SOLICITUD_RESERVA: procesarSolicitudReserva(m) desde la lectura del
\* mensaje hasta la primera seccion critica (validaciones de las lineas 499-599).
procesarSolicitudReserva(m) ==
    /\ pcPeticiones = "select"
    /\ msg' = m
    /\ antes' = Observado
    /\ IF ~validarHora(m.horaSolicitada)
       THEN Negar("FUERA_DE_RANGO")
       ELSE IF excedeAforo(m.numPersonas)
       THEN Negar("EXCEDE_AFORO")
       ELSE IF m.horaSolicitada < horaActual
       THEN /\ pcPeticiones' = "buscar_extemporanea"
            /\ UNCHANGED << estadisticas, resp >>
       ELSE IF m.horaSolicitada > horaFinal
       THEN Negar("FUERA_DE_PERIODO")
       ELSE /\ pcPeticiones' = "verificar"
            /\ UNCHANGED << estadisticas, resp >>
    /\ UNCHANGED << config, cerrojos, horaActual, ocupacionPorHora, reservas,
                    agentesRegistrados, finalizarServidor, pcReloj,
                    horaAlternativa >>

\* Variante defectuosa: la aprobacion no se cuenta.
VerificarSinContar ==
    /\ pcPeticiones = "verificar"
    /\ IF verificarDisponibilidad(ocupacionPorHora, msg.horaSolicitada, msg.numPersonas)
       THEN pcPeticiones' = "reservar_aprobada"
       ELSE pcPeticiones' = "buscar_sin_disponibilidad"
    /\ UNCHANGED << config, cerrojos, horaActual, ocupacionPorHora, reservas,
                    agentesRegistrados, estadisticas, finalizarServidor,
                    pcReloj, msg, resp, horaAlternativa, antes >>

\* if (verificarDisponibilidad(...)) { solicitudesAceptadas++; ... } else ...
Verificar ==
    /\ pcPeticiones = "verificar"
    /\ IF verificarDisponibilidad(ocupacionPorHora, msg.horaSolicitada, msg.numPersonas)
       THEN /\ solicitudesAceptadas' = solicitudesAceptadas + 1
            /\ pcPeticiones' = "reservar_aprobada"
            /\ UNCHANGED << solicitudesNegadas, solicitudesReprogramadas >>
       ELSE /\ pcPeticiones' = "buscar_sin_disponibilidad"
            /\ UNCHANGED estadisticas
    /\ UNCHANGED << config, cerrojos, horaActual, ocupacionPorHora, reservas,
                    agentesRegistrados, finalizarServidor, pcReloj, msg, resp,
                    horaAlternativa, antes >>

\* if (buscarHoraAlternativa(...)) { solicitudesReprogramadas++; ... } else negar
Buscar(desdePc, haciaPc, textoNegada) ==
    /\ pcPeticiones = desdePc
    /\ antes' = [antes EXCEPT !.horaBusqueda = horaActual]
    /\ LET r == buscarHoraAlternativa(ocupacionPorHora, horaActual, msg.numPersonas)
       IN IF r.encontrada
          THEN /\ horaAlternativa' = r.hora
               /\ solicitudesReprogramadas' = solicitudesReprogramadas + 1
               /\ pcPeticiones' = haciaPc
               /\ UNCHANGED << solicitudesNegadas, solicitudesAceptadas, resp >>
          ELSE /\ Negar(textoNegada)
               /\ UNCHANGED horaAlternativa
    /\ UNCHANGED << config, cerrojos, horaActual, ocupacionPorHora, reservas,
                    agentesRegistrados, finalizarServidor, pcReloj, msg >>

BuscarExtemporanea ==
    Buscar("buscar_extemporanea", "reservar_extemporanea", "EXTEMPORANEA_SIN_DISPONIBILIDAD")

BuscarSinDisponibilidad ==
    Buscar("buscar_sin_disponibilidad", "reservar_reprogramada", "SIN_DISPONIBILIDAD")

\* Seccion critica que anota la reserva, y resp a continuacion.
Reservar(desdePc, hora, tipo, texto) ==
    /\ pcPeticiones = desdePc
    /\ reservas' = Append(reservas, nuevaReserva(msg, hora))
    /\ ocupacionPorHora' = actualizarOcupacion(ocupacionPorHora, hora, msg.numPersonas)
    /\ resp' = Respuesta(tipo, hora, horaActual, texto)
    /\ pcPeticiones' = "enviar"
    /\ UNCHANGED << config, cerrojos, horaActual, agentesRegistrados, estadisticas,
                    finalizarServidor, pcReloj, msg, horaAlternativa, antes >>

\* Variante defectuosa: la rama extemporanea copia la rama de aprobacion.
ReservarExtemporaneaComoAprobada ==
    Reservar("reservar_extemporanea", msg.horaSolicitada, "RESP_RESERVA_OK", "APROBADA")

ReservarExtemporanea ==
    Reservar("reservar_extemporanea", horaAlternativa, "RESP_RESERVA_REPROG",
             "REPROGRAMADA_HORA_PASADA")

ReservarAprobada ==
    Reservar("reservar_aprobada", msg.horaSolicitada, "RESP_RESERVA_OK", "APROBADA")

\* Variante defectuosa: anota la reserva en la hora solicitada.
ReservarReprogramadaEnSolicitada ==
    Reservar("reservar_reprogramada", msg.horaSolicitada, "RESP_RESERVA_REPROG",
             "REPROGRAMADA_SIN_DISPONIBILIDAD")

ReservarReprogramada ==
    Reservar("reservar_reprogramada", horaAlternativa, "RESP_RESERVA_REPROG",
             "REPROGRAMADA_SIN_DISPONIBILIDAD")

\* Retorno de enviarRespuesta y del manejador: las locales dejan de existir
\* y el hilo vuelve a la cabeza del bucle.
VolverAlBucle ==
    /\ pcPeticiones' = "bucle"
    /\ msg' = SinMensaje
    /\ resp' = SinRespuesta
    /\ horaAlternativa' = 0
    /\ antes' = [SinAntes EXCEPT !.leidas = antes.leidas]
    /\ UNCHANGED << config, cerrojos, horaActual, ocupacionPorHora, reservas,
                    agentesRegistrados, estadisticas, finalizarServidor, pcReloj >>

\* open(pipeAgente, O_WRONLY), write de un registro, close, con el agente ya
\* esperando en su pipe.
enviarRespuesta ==
    /\ pcPeticiones = "enviar"
    /\ VolverAlBucle

\* bytesLeidos > 0 pero distinto de sizeof(MensajeAgente): no se despacha.
lecturaIncompleta ==
    /\ pcPeticiones = "select"
    /\ pcPeticiones' = "bucle"
    /\ UNCHANGED << config, cerrojos, horaActual, ocupacionPorHora, reservas,
                    agentesRegistrados, estadisticas, finalizarServidor,
                    pcReloj, msg, resp, horaAlternativa, antes >>

\* switch (msg->tipo) de procesarMensaje.
procesarMensaje(m) ==
    CASE m.tipo = "MSG_REGISTRO" -> registrarAgente(m)
      [] m.tipo = "MSG_SOLICITUD_RESERVA" -> procesarSolicitudReserva(m)
      [] m.tipo = "MSG_FIN_AGENTE" -> procesarFinAgente
      [] OTHER -> mensajeDesconocido

(***************************************************************************)
(* Entorno de Spec: los mensajes llegan completos y en cualquier momento   *)
(***************************************************************************)
\* Cada agente se registra una sola vez, al arrancar.
RecibirRegistro ==
    \E a \in Agentes :
       /\ \A i \in 1..numAgentes : agentesRegistrados[i].nombre # a
       /\ registrarAgente(MensajeRegistro(a))

RecibirSolicitud ==
    /\ solicitudesNegadas + solicitudesAceptadas + solicitudesReprogramadas
          < MaxSolicitudes
    /\ \E a \in Agentes, f \in Familias, h \in HorasSolicitadas, n \in Personas :
          procesarSolicitudReserva(MensajeSolicitud(a, f, h, n))

RecibirFin == \E a \in Agentes : procesarMensaje(MensajeFin(a))

RecibirDesconocido == procesarMensaje(MensajeDesconocido)

(***************************************************************************)
(* Especificacion                                                          *)
(***************************************************************************)
Next ==
    \/ RelojBucle /\ UNCHANGED canal
    \/ avanzarHora /\ UNCHANGED canal
    \/ PeticionesBucle /\ UNCHANGED canal
    \/ SelectTimeout /\ UNCHANGED canal
    \/ RecibirRegistro /\ UNCHANGED canal
    \/ RecibirFin /\ UNCHANGED canal
    \/ RecibirDesconocido /\ UNCHANGED canal
    \/ lecturaIncompleta /\ UNCHANGED canal
    \/ RecibirSolicitud /\ UNCHANGED canal
    \/ Verificar /\ UNCHANGED canal
    \/ BuscarExtemporanea /\ UNCHANGED canal
    \/ BuscarSinDisponibilidad /\ UNCHANGED canal
    \/ ReservarExtemporanea /\ UNCHANGED canal
    \/ ReservarAprobada /\ UNCHANGED canal
    \/ ReservarReprogramada /\ UNCHANGED canal
    \/ enviarRespuesta /\ UNCHANGED canal

\* Una jornada sin senales externas.
Spec == Init /\ [][Next]_vars

\* La misma jornada cuando el operador puede interrumpirla con SIGINT.
NextSenal ==
    \/ Next
    \/ manejadorSigInt /\ UNCHANGED canal

SpecSenal == Init /\ [][NextSenal]_vars

\* La jornada sin senales cuando el planificador no deja sin ejecutar al hilo
\* del reloj: sleep() retorna y el hilo vuelve a la cabeza de su bucle.
EquidadReloj ==
    /\ WF_vars(RelojBucle /\ UNCHANGED canal)
    /\ WF_vars(avanzarHora /\ UNCHANGED canal)

SpecJusta == Init /\ [][Next]_vars /\ EquidadReloj


(***************************************************************************)
(* hiloRecibirPeticiones sobre el FIFO de entrada (SpecCanal)              *)
(***************************************************************************)
nucleo == << config, cerrojos, horaActual, ocupacionPorHora, reservas,
             agentesRegistrados, estadisticas, finalizarServidor, pcReloj,
             msg, resp, horaAlternativa, antes >>

\* close() de un extremo: el nucleo descarta los datos del FIFO cuando no
\* queda ningun descriptor abierto.
Descartar(p) ==
    IF ~p.lector /\ p.escritores = {} THEN [p EXCEPT !.datos = <<>>] ELSE p

CerrarLectura(p) == Descartar([p EXCEPT !.lector = FALSE])

\* open(pipeRecibe, O_RDONLY | O_NONBLOCK): no espera a ningun escritor.  Si
\* no hay escritores, select no avisa de fin de datos hasta que haya habido uno.
AbrirLectura(p) ==
    [p EXCEPT !.lector = TRUE, !.huboEscritor = (p.escritores # {})]

\* select() marca el descriptor: hay datos, o todos los escritores cerraron.
FinDeDatos == pipeRecibe.datos = <<>> /\ pipeRecibe.escritores = {}
                 /\ pipeRecibe.huboEscritor
Legible == pipeRecibe.datos # <<>> \/ FinDeDatos

\* Apertura inicial; si falla, finalizarServidor = 1 y el hilo retorna.
AbrirPipeRecibe ==
    /\ pcPeticiones = "abrir"
    /\ IF pipeRecibe.existe
       THEN /\ pipeRecibe' = AbrirLectura(pipeRecibe)
            /\ pcPeticiones' = "bucle"
            /\ UNCHANGED finalizarServidor
       ELSE /\ finalizarServidor' = TRUE
            /\ pcPeticiones' = "terminado"
            /\ UNCHANGED pipeRecibe
    /\ UNCHANGED << config, cerrojos, horaActual, ocupacionPorHora, reservas,
                    agentesRegistrados, estadisticas, pcReloj, msg, resp,
                    horaAlternativa, antes, pcMain, fdPipeAgente, agentes,
                    intruso >>

\* Cabeza del bucle; al salir de el, close(fdPipeRecibe).
PeticionesBucleCanal ==
    /\ PeticionesBucle
    /\ pipeRecibe' = IF finalizarServidor THEN CerrarLectura(pipeRecibe)
                     ELSE pipeRecibe
    /\ UNCHANGED << pcMain, fdPipeAgente, agentes, intruso >>

\* select() agota el segundo de espera solo si el descriptor no es legible.
SelectTimeoutCanal ==
    /\ ~Legible
    /\ SelectTimeout
    /\ UNCHANGED canal

\* read() devuelve un registro completo: procesarMensaje.
LeerMensaje ==
    /\ pcPeticiones = "select"
    /\ pipeRecibe.datos # <<>>
    /\ Head(pipeRecibe.datos).completo
    /\ procesarMensaje(Head(pipeRecibe.datos).m)
    /\ pipeRecibe' = [pipeRecibe EXCEPT !.datos = Tail(@)]
    /\ UNCHANGED << pcMain, fdPipeAgente, agentes, intruso >>

\* read() devuelve menos de sizeof(MensajeAgente) bytes: no se despacha.
LecturaCorta ==
    /\ Len(pipeRecibe.datos) = 1
    /\ ~Head(pipeRecibe.datos).completo
    /\ lecturaIncompleta
    /\ pipeRecibe' = [pipeRecibe EXCEPT !.datos = <<>>]
    /\ UNCHANGED << pcMain, fdPipeAgente, agentes, intruso >>

\* Un trozo corto seguido de mas datos: read() completa sizeof(MensajeAgente)
\* bytes con el principio del registro siguiente, del que queda el resto.
LecturaMezclada ==
    /\ pcPeticiones = "select"
    /\ Len(pipeRecibe.datos) > 1
    /\ ~Head(pipeRecibe.datos).completo
    /\ \E t \in TiposBasura : procesarMensaje(MensajeBasura(t))
    /\ pipeRecibe' = [pipeRecibe EXCEPT
                         !.datos = << Fragmento(@[2].m) >> \o Tail(Tail(@))]
    /\ UNCHANGED << pcMain, fdPipeAgente, agentes, intruso >>

\* read() devuelve 0: fin de datos.
LeerEOF ==
    /\ pcPeticiones = "select"
    /\ FinDeDatos
    /\ pcPeticiones' = "eof"
    /\ UNCHANGED << nucleo, canal >>

\* Variante: el fin de datos termina el hilo sin reabrir el FIFO.
ReabrirPipeTermina ==
    /\ pcPeticiones = "eof"
    /\ pipeRecibe' = CerrarLectura(pipeRecibe)
    /\ pcPeticiones' = "terminado"
    /\ UNCHANGED << nucleo, pcMain, fdPipeAgente, agentes, intruso >>

\* close(fdPipeRecibe) y, si el servidor no esta finalizando, open de nuevo;
\* si el open falla, break y retorno del hilo.
ReabrirPipe ==
    /\ pcPeticiones = "eof"
    /\ IF finalizarServidor
       THEN /\ pipeRecibe' = CerrarLectura(pipeRecibe)
            /\ pcPeticiones' = "bucle"
       ELSE IF pipeRecibe.existe
       THEN /\ pipeRecibe' = [AbrirLectura(CerrarLectura(pipeRecibe))
                                 EXCEPT !.reabierto = TRUE]
            /\ pcPeticiones' = "bucle"
       ELSE /\ pipeRecibe' = CerrarLectura(pipeRecibe)
            /\ pcPeticiones' = "terminado"
    /\ UNCHANGED << nucleo, pcMain, fdPipeAgente, agentes, intruso >>

\* Agente dueno del pipe de respuesta p, si ese pipe existe.
Duenos(p) == { a \in AgentesCanal : PipeDe(a) = p /\ agentes[a].pipe }

\* open(pipeAgente, O_WRONLY): falla si el pipe no existe (perror y return);
\* si existe, retorna cuando el agente lo tiene abierto para leer, y en ese
\* momento retorna tambien el open del agente.
enviarAbrir ==
    /\ pcPeticiones = "enviar"
    /\ IF Duenos(msg.pipeRespuesta) = {}
       THEN /\ VolverAlBucle
            /\ UNCHANGED << fdPipeAgente, agentes >>
       ELSE /\ \E a \in Duenos(msg.pipeRespuesta) :
                  /\ agentes[a].pc = "recibir_abrir"
                  /\ agentes' = [agentes EXCEPT ![a].pc = "recibir_leer"]
            /\ fdPipeAgente' = msg.pipeRespuesta
            /\ pcPeticiones' = "escribir"
            /\ UNCHANGED nucleo
    /\ UNCHANGED << pcMain, pipeRecibe, intruso >>

\* Variante: dos write del mismo registro antes del close.
enviarEscribirDosVeces ==
    /\ pcPeticiones = "escribir"
    /\ agentes' = [a \in AgentesCanal |->
                     IF PipeDe(a) = fdPipeAgente
                     THEN [agentes[a] EXCEPT !.buzon = Append(Append(@, resp), resp)]
                     ELSE agentes[a]]
    /\ fdPipeAgente' = <<>>
    /\ VolverAlBucle
    /\ UNCHANGED << pcMain, pipeRecibe, intruso >>

\* write de un registro RespuestaControlador y close.
enviarEscribir ==
    /\ pcPeticiones = "escribir"
    /\ agentes' = [a \in AgentesCanal |->
                     IF PipeDe(a) = fdPipeAgente
                     THEN [agentes[a] EXCEPT !.buzon = Append(@, resp)]
                     ELSE agentes[a]]
    /\ fdPipeAgente' = <<>>
    /\ VolverAlBucle
    /\ UNCHANGED << pcMain, pipeRecibe, intruso >>

\* Llamadas en las que un pthread_cancel pendiente hace efecto: select, read,
\* close, open, write y printf.
PuntosDeCancelacion ==
    {"bucle", "select", "eof", "buscar_extemporanea",
     "buscar_sin_disponibilidad", "enviar", "escribir"}

\* El hilo muere sin cerrar sus descriptores.
Cancelacion ==
    /\ pcMain = "join_peticiones"
    /\ pcPeticiones \in PuntosDeCancelacion
    /\ pcPeticiones' = "cancelado"
    /\ UNCHANGED << nucleo, canal >>

(***************************************************************************)
(* main tras crear los hilos                                               *)
(***************************************************************************)
ControladorSigue ==
    UNCHANGED << config, cerrojos, horaActual, ocupacionPorHora, reservas,
                 agentesRegistrados, estadisticas, pcReloj, pcPeticiones, msg,
                 resp, horaAlternativa, antes, fdPipeAgente, agentes, intruso >>

\* pthread_join(tidReloj) retorna.
MainJoinReloj ==
    /\ pcMain = "join_reloj"
    /\ pcReloj = "terminado"
    /\ pcMain' = "gracia"
    /\ UNCHANGED << finalizarServidor, pipeRecibe >>
    /\ ControladorSigue

\* sleep(2); finalizarServidor = 1;
MainMarcar ==
    /\ pcMain = "gracia"
    /\ finalizarServidor' = TRUE
    /\ pcMain' = "espera"
    /\ UNCHANGED pipeRecibe
    /\ ControladorSigue

\* sleep(1); pthread_cancel(tidPeticiones);
MainCancelar ==
    /\ pcMain = "espera"
    /\ pcMain' = "join_peticiones"
    /\ UNCHANGED << finalizarServidor, pipeRecibe >>
    /\ ControladorSigue

\* Variante: el reporte empieza sin esperar al hilo de peticiones.
MainJoinPeticionesSinEsperar ==
    /\ pcMain = "join_peticiones"
    /\ pcMain' = "reporte"
    /\ UNCHANGED << finalizarServidor, pipeRecibe >>
    /\ ControladorSigue

\* pthread_join(tidPeticiones) retorna y empieza generarReporte.
MainJoinPeticiones ==
    /\ pcMain = "join_peticiones"
    /\ pcPeticiones \in {"terminado", "cancelado"}
    /\ pcMain' = "reporte"
    /\ UNCHANGED << finalizarServidor, pipeRecibe >>
    /\ ControladorSigue

\* generarReporte lee reservas, ocupacion y estadisticas y las imprime.
generarReporte ==
    /\ pcMain = "reporte"
    /\ pcMain' = "limpiar"
    /\ UNCHANGED << finalizarServidor, pipeRecibe >>
    /\ ControladorSigue

\* limpiarRecursos: unlink(pipeRecibe); y return de main, que cierra los
\* descriptores que el proceso tuviera abiertos.
limpiarRecursos ==
    /\ pcMain = "limpiar"
    /\ pcMain' = "fin"
    /\ pipeRecibe' = CerrarLectura([pipeRecibe EXCEPT !.existe = FALSE])
    /\ fdPipeAgente' = <<>>
    /\ UNCHANGED << nucleo, pcPeticiones, agentes, intruso >>

(***************************************************************************)
(* Procesos agente (src/agente.c)                                          *)
(***************************************************************************)
\* El mensaje que el agente esta enviando, segun donde va su main.
MensajeDe(a) ==
    CASE agentes[a].fase = "registro" -> MensajeRegistro(a)
      [] agentes[a].fase = "solicitud" ->
            LET l == Head(agentes[a].pendientes)
            IN MensajeSolicitud(a, l.nombreFamilia, l.horaSolicitada, l.numPersonas)
      [] OTHER -> MensajeFin(a)

CerrarEscritura(p, a) == Descartar([p EXCEPT !.escritores = @ \ {a}])

\* enviarMensaje: open(pipeControlador, O_WRONLY).  Si el FIFO no existe el
\* open falla y el agente hace exit(EXIT_FAILURE); si existe, el open espera
\* a que el controlador lo tenga abierto para leer.
AgenteAbre(a) ==
    /\ agentes[a].pc = "enviar_abrir"
    /\ IF ~pipeRecibe.existe
       THEN /\ agentes' = [agentes EXCEPT ![a].pc = "fallo"]
            /\ UNCHANGED pipeRecibe
       ELSE /\ pipeRecibe.lector
            /\ pipeRecibe' = [pipeRecibe EXCEPT !.escritores = @ \cup {a},
                                                !.huboEscritor = TRUE]
            /\ agentes' = [agentes EXCEPT ![a].pc = "enviar_escribir"]
    /\ UNCHANGED << nucleo, pcPeticiones, pcMain, fdPipeAgente, intruso >>

\* enviarMensaje: write de un MensajeAgente y close.  Sin lector el write
\* levanta SIGPIPE, que el agente no maneja.  Tras MSG_FIN_AGENTE main llama a
\* limpiarRecursos y retorna.
AgenteEscribe(a) ==
    /\ agentes[a].pc = "enviar_escribir"
    /\ IF ~pipeRecibe.lector
       THEN /\ pipeRecibe' = CerrarEscritura(pipeRecibe, a)
            /\ agentes' = [agentes EXCEPT ![a].pc = "sigpipe"]
       ELSE /\ pipeRecibe' =
                  CerrarEscritura([pipeRecibe EXCEPT
                                      !.datos = Append(@, Completo(MensajeDe(a)))], a)
            /\ agentes' =
                  IF agentes[a].fase = "fin"
                  THEN [agentes EXCEPT ![a].pc = "terminado", ![a].pipe = FALSE]
                  ELSE [agentes EXCEPT ![a].pc = "enviado"]
    /\ UNCHANGED << nucleo, pcPeticiones, pcMain, fdPipeAgente, intruso >>

\* recibirRespuesta: el agente entra en open(pipeRespuesta, O_RDONLY), que
\* espera a que el controlador abra el pipe para escribir.
AgenteEspera(a) ==
    /\ agentes[a].pc = "enviado"
    /\ agentes' = [agentes EXCEPT ![a].pc = "recibir_abrir"]
    /\ UNCHANGED << nucleo, pcPeticiones, pcMain, pipeRecibe, fdPipeAgente,
                    intruso >>

\* Fase siguiente de main cuando quedan por enviar las lineas de pend.
Siguiente(pend) == IF pend = <<>> THEN "fin" ELSE "solicitud"

\* recibirRespuesta: read y close.  read retorna con un registro o, si el
\* escritor cerro sin escribir, con 0.  Sin respuesta al registro el agente
\* llama a limpiarRecursos y hace exit; sin respuesta a una solicitud sigue
\* con la linea siguiente.
AgenteLee(a) ==
    /\ agentes[a].pc = "recibir_leer"
    /\ agentes[a].buzon # <<>> \/ fdPipeAgente # PipeDe(a)
    /\ LET recibida == agentes[a].buzon # <<>>
           ag == [agentes[a] EXCEPT !.buzon = <<>>]
       IN agentes' =
             [agentes EXCEPT ![a] =
                 IF ag.fase = "registro"
                 THEN IF recibida /\ Head(agentes[a].buzon).tipo = "RESP_HORA_ACTUAL"
                      THEN [ag EXCEPT !.pc = "enviar_abrir",
                                      !.fase = Siguiente(ag.pendientes)]
                      ELSE [ag EXCEPT !.pc = "fallo", !.pipe = FALSE]
                 ELSE [ag EXCEPT !.pc = "enviar_abrir",
                                 !.pendientes = Tail(@),
                                 !.fase = Siguiente(Tail(ag.pendientes))]]
    /\ UNCHANGED << nucleo, pcPeticiones, pcMain, pipeRecibe, fdPipeAgente,
                    intruso >>

\* Un proceso que no sigue el protocolo abre el FIFO, escribe un trozo corto
\* o un registro de tipo desconocido, y cierra.
IntrusoEscribe ==
    /\ intruso = "fuera"
    /\ pipeRecibe.existe
    /\ pipeRecibe.lector
    /\ \E r \in RegistrosIntruso :
          pipeRecibe' = [pipeRecibe EXCEPT !.datos = Append(@, r),
                                           !.huboEscritor = TRUE]
    /\ intruso' = "hecho"
    /\ UNCHANGED << nucleo, pcPeticiones, pcMain, fdPipeAgente, agentes >>

(***************************************************************************)
(* Especificacion con el canal                                             *)
(***************************************************************************)
NextCanal ==
    \/ RelojBucle /\ UNCHANGED canal
    \/ avanzarHora /\ UNCHANGED canal
    \/ MainJoinReloj
    \/ MainMarcar
    \/ MainCancelar
    \/ MainJoinPeticiones
    \/ generarReporte
    \/ limpiarRecursos
    \/ AbrirPipeRecibe
    \/ PeticionesBucleCanal
    \/ SelectTimeoutCanal
    \/ LeerMensaje
    \/ LeerEOF
    \/ ReabrirPipe
    \/ Verificar /\ UNCHANGED canal
    \/ BuscarExtemporanea /\ UNCHANGED canal
    \/ BuscarSinDisponibilidad /\ UNCHANGED canal
    \/ ReservarExtemporanea /\ UNCHANGED canal
    \/ ReservarAprobada /\ UNCHANGED canal
    \/ ReservarReprogramada /\ UNCHANGED canal
    \/ enviarAbrir
    \/ enviarEscribir
    \/ Cancelacion
    \/ \E a \in AgentesCanal : AgenteAbre(a)
    \/ \E a \in AgentesCanal : AgenteEscribe(a)
    \/ \E a \in AgentesCanal : AgenteEspera(a)
    \/ \E a \in AgentesCanal : AgenteLee(a)

\* El controlador completo con sus agentes, sin senales externas.
SpecCanal == InitCanal /\ [][NextCanal]_vars

\* Pasos de hiloRecibirPeticiones y de main en SpecCanal.
PasoPeticiones ==
    \/ AbrirPipeRecibe
    \/ PeticionesBucleCanal
    \/ SelectTimeoutCanal
    \/ LeerMensaje
    \/ LeerEOF
    \/ ReabrirPipe
    \/ (Verificar \/ BuscarExtemporanea \/ BuscarSinDisponibilidad) /\ UNCHANGED canal
    \/ (ReservarExtemporanea \/ ReservarAprobada \/ ReservarReprogramada)
          /\ UNCHANGED canal
    \/ enviarAbrir
    \/ enviarEscribir

PasoMain ==
    \/ MainJoinReloj
    \/ MainMarcar
    \/ MainCancelar
    \/ MainJoinPeticiones
    \/ generarReporte
    \/ limpiarRecursos

\* El planificador no deja sin ejecutar a ningun hilo del controlador, los
\* sleep retornan y la cancelacion pendiente hace efecto en el punto de
\* cancelacion en que el hilo espera.  De los agentes no se supone nada: un
\* agente puede tardar lo que quiera en dar su paso siguiente.
EquidadControlador ==
    /\ EquidadReloj
    /\ WF_vars(PasoMain)
    /\ WF_vars(PasoPeticiones)
    /\ WF_vars(Cancelacion)

SpecCanalJusta == InitCanal /\ [][NextCanal]_vars /\ EquidadControlador

\* Lo mismo cuando ademas un proceso ajeno escribe en el FIFO de entrada.
NextIntruso ==
    \/ NextCanal
    \/ IntrusoEscribe
    \/ LecturaCorta
    \/ LecturaMezclada

SpecIntruso == InitCanal /\ [][NextIntruso]_vars

(***************************************************************************)
(* El arreglo de reservas (SpecAlmacen)                                    *)
(***************************************************************************)
\* Un parque con tanto aforo como elementos tiene el arreglo y un agente que
\* pide siempre lo mismo: una persona en la primera hora del dia.  El agente
\* envia una solicitud mas de las que caben en el arreglo; lo que el programa
\* hace despues de escribir fuera de el no esta definido.
ConfiguracionAlmacen ==
    [horaInicial |-> 16, horaFinal |-> 19, aforoMaximo |-> CapacidadReservas]

InitAlmacen ==
    /\ inicializarServidor(ConfiguracionAlmacen)
    /\ pcPeticiones = "bucle"
    /\ CanalInicial(PipeAbierto)

RecibirSolicitudAlmacen ==
    /\ solicitudesNegadas + solicitudesAceptadas + solicitudesReprogramadas
          <= CapacidadReservas
    /\ \E a \in Agentes, f \in Familias :
          procesarSolicitudReserva(MensajeSolicitud(a, f, horaInicial, 1))

NextAlmacen ==
    \/ RelojBucle /\ UNCHANGED canal
    \/ avanzarHora /\ UNCHANGED canal
    \/ PeticionesBucle /\ UNCHANGED canal
    \/ SelectTimeout /\ UNCHANGED canal
    \/ RecibirSolicitudAlmacen /\ UNCHANGED canal
    \/ Verificar /\ UNCHANGED canal
    \/ BuscarExtemporanea /\ UNCHANGED canal
    \/ BuscarSinDisponibilidad /\ UNCHANGED canal
    \/ ReservarExtemporanea /\ UNCHANGED canal
    \/ ReservarAprobada /\ UNCHANGED canal
    \/ ReservarReprogramada /\ UNCHANGED canal
    \/ enviarRespuesta /\ UNCHANGED canal

SpecAlmacen == InitAlmacen /\ [][NextAlmacen]_vars


(***************************************************************************)
(* Especificacion con mas agentes que sitio en el registro                 *)
(***************************************************************************)
\* Los agentes se llaman 1, 2, ...: se registran por orden hasta llenar
\* agentesRegistrados, y el que llega despues encuentra el registro lleno.
AgenteSinSitio == MAX_AGENTES + 1

InitRegistro ==
    /\ \E c \in ConfiguracionesCanal : inicializarServidor(c)
    /\ pcPeticiones = "bucle"
    /\ CanalInicial(PipeAbierto)

RecibirRegistroSiguiente ==
    registrarAgente(MensajeRegistro(IF numAgentes < MAX_AGENTES
                                    THEN numAgentes + 1
                                    ELSE AgenteSinSitio))

\* Solicita el primer agente registrado o, con el registro lleno, el agente
\* que no cupo en el; los dos piden lo mismo.
RecibirSolicitudDe ==
    /\ solicitudesNegadas + solicitudesAceptadas + solicitudesReprogramadas
          < MaxSolicitudes
    /\ \E a \in {1, AgenteSinSitio}, l \in {Archivos[x][1] : x \in AgentesCanal} :
          /\ IF a = AgenteSinSitio
             THEN numAgentes = MAX_AGENTES
             ELSE numAgentes >= 1
          /\ procesarSolicitudReserva(
                MensajeSolicitud(a, l.nombreFamilia, l.horaSolicitada, l.numPersonas))

NextRegistro ==
    \/ RelojBucle /\ UNCHANGED canal
    \/ avanzarHora /\ UNCHANGED canal
    \/ PeticionesBucle /\ UNCHANGED canal
    \/ SelectTimeout /\ UNCHANGED canal
    \/ RecibirRegistroSiguiente /\ UNCHANGED canal
    \/ RecibirSolicitudDe /\ UNCHANGED canal
    \/ Verificar /\ UNCHANGED canal
    \/ BuscarExtemporanea /\ UNCHANGED canal
    \/ BuscarSinDisponibilidad /\ UNCHANGED canal
    \/ ReservarExtemporanea /\ UNCHANGED canal
    \/ ReservarAprobada /\ UNCHANGED canal
    \/ ReservarReprogramada /\ UNCHANGED canal
    \/ enviarRespuesta /\ UNCHANGED canal

SpecRegistro == InitRegistro /\ [][NextRegistro]_vars

(***************************************************************************)
(* Los hilos paso a paso dentro de sus secciones criticas (SpecCerrojo)    *)
(***************************************************************************)
\* pthread_mutex_lock retorna cuando el mutex esta libre y lo deja tomado por
\* el hilo que llama; pthread_mutex_unlock lo deja libre.
pthread_mutex_lock(m, hilo) ==
    /\ mutex[m] = "libre"
    /\ mutex' = [mutex EXCEPT ![m] = hilo]

pthread_mutex_unlock(m) == mutex' = [mutex EXCEPT ![m] = "libre"]

InitCerrojo ==
    /\ \E c \in ConfiguracionesCanal : inicializarServidor(c)
    /\ pcPeticiones = "bucle"
    /\ CanalInicial(PipeAbierto)

\* Variante defectuosa: avanzarHora no toma mutexReservas.
avanzarHoraSinLock ==
    /\ pcReloj = "durmiendo"
    /\ pcReloj' = "avanzar"
    /\ UNCHANGED << config, horaActual, ocupacionPorHora, reservas,
                    agentesRegistrados, estadisticas, finalizarServidor,
                    pcPeticiones, msg, resp, horaAlternativa, antes,
                    mutex, hOcupacion >>

\* avanzarHora: pthread_mutex_lock(&mutexReservas) al acabar el sleep.
avanzarHoraLock ==
    /\ pcReloj = "durmiendo"
    /\ pthread_mutex_lock("mutexReservas", "reloj")
    /\ pcReloj' = "avanzar"
    /\ UNCHANGED << config, horaActual, ocupacionPorHora, reservas,
                    agentesRegistrados, estadisticas, finalizarServidor,
                    pcPeticiones, msg, resp, horaAlternativa, antes,
                    hOcupacion >>

\* horaActual++;
avanzarHoraIncremento ==
    /\ pcReloj = "avanzar"
    /\ horaActual' = horaActual + 1
    /\ pcReloj' = "activar"
    /\ UNCHANGED << config, cerrojos, ocupacionPorHora, reservas,
                    agentesRegistrados, estadisticas, finalizarServidor,
                    pcPeticiones, msg, resp, horaAlternativa, antes >>

\* Primer bucle: activa las reservas que empiezan en horaActual.
avanzarHoraActivar ==
    /\ pcReloj = "activar"
    /\ reservas' = activarReservas(reservas, horaActual)
    /\ pcReloj' = "desactivar"
    /\ UNCHANGED << config, cerrojos, horaActual, ocupacionPorHora,
                    agentesRegistrados, estadisticas, finalizarServidor,
                    pcPeticiones, msg, resp, horaAlternativa, antes >>

\* Segundo bucle y pthread_mutex_unlock(&mutexReservas).
avanzarHoraDesactivar ==
    /\ pcReloj = "desactivar"
    /\ reservas' = desactivarReservas(reservas, horaActual)
    /\ pthread_mutex_unlock("mutexReservas")
    /\ pcReloj' = "imprimir"
    /\ UNCHANGED << config, horaActual, ocupacionPorHora,
                    agentesRegistrados, estadisticas, finalizarServidor,
                    pcPeticiones, msg, resp, horaAlternativa, antes,
                    hOcupacion >>

\* imprimirEstadoHora: pthread_mutex_lock(&mutexReservas).
imprimirEstadoHoraLock ==
    /\ pcReloj = "imprimir"
    /\ pthread_mutex_lock("mutexReservas", "reloj")
    /\ pcReloj' = "imprimiendo"
    /\ UNCHANGED << config, horaActual, ocupacionPorHora, reservas,
                    agentesRegistrados, estadisticas, finalizarServidor,
                    pcPeticiones, msg, resp, horaAlternativa, antes,
                    hOcupacion >>

\* imprimirEstadoHora lee horaActual, reservas y ocupacionPorHora, imprime y
\* suelta el mutex.
imprimirEstadoHora ==
    /\ pcReloj = "imprimiendo"
    /\ pthread_mutex_unlock("mutexReservas")
    /\ pcReloj' = "bucle"
    /\ UNCHANGED << config, horaActual, ocupacionPorHora, reservas,
                    agentesRegistrados, estadisticas, finalizarServidor,
                    pcPeticiones, msg, resp, horaAlternativa, antes,
                    hOcupacion >>

\* Posiciones en que el oyente llama a pthread_mutex_lock, el mutex que pide
\* en cada una y la posicion en que queda con el mutex tomado.
MutexQueEspera ==
    [registrar |-> "mutexAgentes",
     negar |-> "mutexEstadisticas",
     verificar |-> "mutexReservas",
     contar_aceptada |-> "mutexEstadisticas",
     buscar |-> "mutexReservas",
     contar_reprogramada |-> "mutexEstadisticas",
     reservar |-> "mutexReservas"]

ConMutex ==
    [registrar |-> "registrar_dentro",
     negar |-> "negar_dentro",
     verificar |-> "verificar_dentro",
     contar_aceptada |-> "contar_aceptada_dentro",
     buscar |-> "buscar_dentro",
     contar_reprogramada |-> "contar_reprogramada_dentro",
     reservar |-> "anotar"]

PeticionesLock ==
    /\ pcPeticiones \in DOMAIN MutexQueEspera
    /\ pthread_mutex_lock(MutexQueEspera[pcPeticiones], "peticiones")
    /\ pcPeticiones' = ConMutex[pcPeticiones]
    /\ UNCHANGED << config, horaActual, ocupacionPorHora, reservas,
                    agentesRegistrados, estadisticas, finalizarServidor,
                    pcReloj, msg, resp, horaAlternativa, antes, hOcupacion >>

\* read() entrega un MSG_REGISTRO: registrarAgente hasta su lock.
LeerRegistro ==
    /\ pcPeticiones = "select"
    /\ \E a \in Agentes :
          /\ \A i \in 1..numAgentes : agentesRegistrados[i].nombre # a
          /\ msg' = MensajeRegistro(a)
    /\ pcPeticiones' = "registrar"
    /\ UNCHANGED << config, cerrojos, horaActual, ocupacionPorHora, reservas,
                    agentesRegistrados, estadisticas, finalizarServidor,
                    pcReloj, resp, horaAlternativa, antes >>

\* Variante defectuosa: registrarAgente llama a enviarRespuesta sin soltar
\* mutexAgentes.
registrarAgenteSinUnlock ==
    /\ pcPeticiones = "registrar_dentro"
    /\ agentesRegistrados' =
          IF numAgentes < MAX_AGENTES
          THEN Append(agentesRegistrados,
                      [nombre |-> msg.nombreAgente,
                       pipeRespuesta |-> msg.pipeRespuesta, activo |-> TRUE])
          ELSE agentesRegistrados
    /\ resp' = Respuesta("RESP_HORA_ACTUAL", Indeterminado, horaActual,
                          "BIENVENIDO")
    /\ pcPeticiones' = "enviar"
    /\ UNCHANGED << config, cerrojos, horaActual, ocupacionPorHora, reservas,
                    estadisticas, finalizarServidor, pcReloj, msg,
                    horaAlternativa, antes >>

\* Seccion bajo mutexAgentes, unlock, y resp = RESP_HORA_ACTUAL.
registrarAgenteDentro ==
    /\ pcPeticiones = "registrar_dentro"
    /\ agentesRegistrados' =
          IF numAgentes < MAX_AGENTES
          THEN Append(agentesRegistrados,
                      [nombre |-> msg.nombreAgente,
                       pipeRespuesta |-> msg.pipeRespuesta, activo |-> TRUE])
          ELSE agentesRegistrados
    /\ pthread_mutex_unlock("mutexAgentes")
    /\ resp' = Respuesta("RESP_HORA_ACTUAL", Indeterminado, horaActual,
                          "BIENVENIDO")
    /\ pcPeticiones' = "enviar"
    /\ UNCHANGED << config, horaActual, ocupacionPorHora, reservas,
                    estadisticas, finalizarServidor, pcReloj, msg,
                    horaAlternativa, antes, hOcupacion >>

\* read() entrega un MSG_SOLICITUD_RESERVA: validaciones de
\* procesarSolicitudReserva hasta el primer lock.
\* Lineas de solicitud que el oyente puede leer: las de los archivos y una
\* para la ultima hora del parque.
SolicitudesCerrojo ==
    {Archivos[x][1] : x \in AgentesCanal}
       \cup {[nombreFamilia |-> "C", horaSolicitada |-> HORAS_MAX, numPersonas |-> 30]}

LeerSolicitud ==
    /\ pcPeticiones = "select"
    /\ antes.leidas < MaxSolicitudes
    /\ \E a \in Agentes, l \in SolicitudesCerrojo :
          /\ msg' = MensajeSolicitud(a, l.nombreFamilia, l.horaSolicitada,
                                     l.numPersonas)
          /\ pcPeticiones' =
                IF ~validarHora(l.horaSolicitada) \/ excedeAforo(l.numPersonas)
                THEN "negar"
                ELSE IF l.horaSolicitada < horaActual THEN "buscar"
                ELSE IF l.horaSolicitada > horaFinal THEN "negar"
                ELSE "verificar"
    /\ antes' = Observado
    /\ UNCHANGED << config, cerrojos, horaActual, ocupacionPorHora, reservas,
                    agentesRegistrados, estadisticas, finalizarServidor,
                    pcReloj, resp, horaAlternativa >>

\* Texto de la negacion segun la rama que la decide.
TextoNegada ==
    IF ~validarHora(msg.horaSolicitada) THEN "FUERA_DE_RANGO"
    ELSE IF excedeAforo(msg.numPersonas) THEN "EXCEDE_AFORO"
    ELSE IF msg.horaSolicitada < antes.horaActual
    THEN "EXTEMPORANEA_SIN_DISPONIBILIDAD"
    ELSE IF msg.horaSolicitada > horaFinal THEN "FUERA_DE_PERIODO"
    ELSE "SIN_DISPONIBILIDAD"

\* solicitudesNegadas++ bajo mutexEstadisticas, unlock, y resp.
negarDentro ==
    /\ pcPeticiones = "negar_dentro"
    /\ Negar(TextoNegada)
    /\ pthread_mutex_unlock("mutexEstadisticas")
    /\ UNCHANGED << config, horaActual, ocupacionPorHora, reservas,
                    agentesRegistrados, finalizarServidor, pcReloj, msg,
                    horaAlternativa, antes, hOcupacion >>

\* verificarDisponibilidad bajo mutexReservas, y unlock.
verificarDentro ==
    /\ pcPeticiones = "verificar_dentro"
    /\ pcPeticiones' =
          IF verificarDisponibilidad(ocupacionPorHora, msg.horaSolicitada,
                                     msg.numPersonas)
          THEN "contar_aceptada" ELSE "buscar"
    /\ pthread_mutex_unlock("mutexReservas")
    /\ UNCHANGED << config, horaActual, ocupacionPorHora, reservas,
                    agentesRegistrados, estadisticas, finalizarServidor,
                    pcReloj, msg, resp, horaAlternativa, antes, hOcupacion >>

\* solicitudesAceptadas++ bajo mutexEstadisticas, y unlock.
contarAceptadaDentro ==
    /\ pcPeticiones = "contar_aceptada_dentro"
    /\ solicitudesAceptadas' = solicitudesAceptadas + 1
    /\ pthread_mutex_unlock("mutexEstadisticas")
    /\ pcPeticiones' = "reservar"
    /\ UNCHANGED << config, horaActual, ocupacionPorHora, reservas,
                    agentesRegistrados, solicitudesNegadas,
                    solicitudesReprogramadas, finalizarServidor, pcReloj, msg,
                    resp, horaAlternativa, antes, hOcupacion >>

\* buscarHoraAlternativa bajo mutexReservas, y unlock.
buscarDentro ==
    /\ pcPeticiones = "buscar_dentro"
    /\ antes' = [antes EXCEPT !.horaBusqueda = horaActual]
    /\ LET r == buscarHoraAlternativa(ocupacionPorHora, horaActual, msg.numPersonas)
       IN IF r.encontrada
          THEN /\ horaAlternativa' = r.hora
               /\ pcPeticiones' = "contar_reprogramada"
          ELSE /\ pcPeticiones' = "negar"
               /\ UNCHANGED horaAlternativa
    /\ pthread_mutex_unlock("mutexReservas")
    /\ UNCHANGED << config, horaActual, ocupacionPorHora, reservas,
                    agentesRegistrados, estadisticas, finalizarServidor,
                    pcReloj, msg, resp, hOcupacion >>

\* solicitudesReprogramadas++ bajo mutexEstadisticas, y unlock.
contarReprogramadaDentro ==
    /\ pcPeticiones = "contar_reprogramada_dentro"
    /\ solicitudesReprogramadas' = solicitudesReprogramadas + 1
    /\ pthread_mutex_unlock("mutexEstadisticas")
    /\ pcPeticiones' = "reservar"
    /\ UNCHANGED << config, horaActual, ocupacionPorHora, reservas,
                    agentesRegistrados, solicitudesNegadas,
                    solicitudesAceptadas, finalizarServidor, pcReloj, msg,
                    resp, horaAlternativa, antes, hOcupacion >>

\* Hora en que se anota la reserva: la alternativa si hubo busqueda, la
\* solicitada si no.
HoraDeReserva ==
    IF horaAlternativa = 0 THEN msg.horaSolicitada ELSE horaAlternativa

\* reservas[numReservas] = {...}: el registro queda escrito mas alla de
\* numReservas, donde ningun bucle lo lee todavia; h = hora de la reserva.
anotarReserva ==
    /\ pcPeticiones = "anotar"
    /\ hOcupacion' = HoraDeReserva
    /\ pcPeticiones' = "ocupar"
    /\ UNCHANGED << config, mutex, horaActual, ocupacionPorHora, reservas,
                    agentesRegistrados, estadisticas, finalizarServidor,
                    pcReloj, msg, resp, horaAlternativa, antes >>

\* Variante defectuosa: el bucle de ocupacion no se detiene en HORAS_MAX y
\* carga en el ultimo contador tambien la hora que cae fuera de la tabla.
ocuparHoraSinValidar ==
    /\ pcPeticiones = "ocupar"
    /\ hOcupacion < HoraDeReserva + DURACION_RESERVA
    /\ ocupacionPorHora' =
          [ocupacionPorHora EXCEPT ![indiceHora(IF hOcupacion > HORAS_MAX THEN HORAS_MAX
                                                   ELSE hOcupacion)] =
                                       @ + msg.numPersonas]
    /\ hOcupacion' = hOcupacion + 1
    /\ UNCHANGED << config, mutex, horaActual, reservas, agentesRegistrados,
                    estadisticas, finalizarServidor, pcReloj, pcPeticiones,
                    msg, resp, horaAlternativa, antes >>

\* Una vuelta del bucle: ocupacionPorHora[indiceHora(h)] += numPersonas; h++.
ocuparHora ==
    /\ pcPeticiones = "ocupar"
    /\ hOcupacion < HoraDeReserva + DURACION_RESERVA /\ validarHora(hOcupacion)
    /\ ocupacionPorHora' =
          [ocupacionPorHora EXCEPT ![indiceHora(hOcupacion)] = @ + msg.numPersonas]
    /\ hOcupacion' = hOcupacion + 1
    /\ UNCHANGED << config, mutex, horaActual, reservas, agentesRegistrados,
                    estadisticas, finalizarServidor, pcReloj, pcPeticiones,
                    msg, resp, horaAlternativa, antes >>

\* Variante defectuosa: la anotacion termina sin soltar mutexReservas.
contarReservaSinUnlock ==
    /\ pcPeticiones = "ocupar"
    /\ ~(hOcupacion < HoraDeReserva + DURACION_RESERVA /\ validarHora(hOcupacion))
    /\ reservas' = Append(reservas, nuevaReserva(msg, HoraDeReserva))
    /\ hOcupacion' = 0
    /\ resp' = Respuesta("RESP_RESERVA_OK", HoraDeReserva, horaActual, "APROBADA")
    /\ pcPeticiones' = "enviar"
    /\ UNCHANGED << config, mutex, horaActual, ocupacionPorHora, agentesRegistrados,
                    estadisticas, finalizarServidor, pcReloj, msg,
                    horaAlternativa, antes >>

\* Fin del bucle: numReservas++, unlock, y resp.
contarReserva ==
    /\ pcPeticiones = "ocupar"
    /\ ~(hOcupacion < HoraDeReserva + DURACION_RESERVA /\ validarHora(hOcupacion))
    /\ reservas' = Append(reservas, nuevaReserva(msg, HoraDeReserva))
    /\ pthread_mutex_unlock("mutexReservas")
    /\ hOcupacion' = 0
    /\ resp' = IF horaAlternativa = 0
               THEN Respuesta("RESP_RESERVA_OK", HoraDeReserva, horaActual, "APROBADA")
               ELSE Respuesta("RESP_RESERVA_REPROG", HoraDeReserva, horaActual,
                              IF msg.horaSolicitada < antes.horaActual
                              THEN "REPROGRAMADA_HORA_PASADA"
                              ELSE "REPROGRAMADA_SIN_DISPONIBILIDAD")
    /\ pcPeticiones' = "enviar"
    /\ UNCHANGED << config, horaActual, ocupacionPorHora, agentesRegistrados,
                    estadisticas, finalizarServidor, pcReloj, msg,
                    horaAlternativa, antes >>

\* Puntos de cancelacion del oyente en estas posiciones: select, read, los
\* printf que preceden a las validaciones y a la busqueda, y open/write/close
\* de enviarRespuesta.  Ninguno esta dentro de una seccion critica.
PuntosDeCancelacionCerrojo ==
    {"bucle", "select", "negar", "verificar", "buscar", "enviar"}

CancelacionCerrojo ==
    /\ pcMain = "join_peticiones"
    /\ pcPeticiones \in PuntosDeCancelacionCerrojo
    /\ pcPeticiones' = "cancelado"
    /\ UNCHANGED << nucleo, canal >>

\* generarReporte: pthread_mutex_lock(&mutexReservas).
generarReporteLockReservas ==
    /\ pcMain = "reporte"
    /\ pthread_mutex_lock("mutexReservas", "main")
    /\ pcMain' = "reporte_estadisticas"
    /\ UNCHANGED << config, hOcupacion, horaActual, ocupacionPorHora, reservas,
                    agentesRegistrados, estadisticas, finalizarServidor,
                    pcReloj, pcPeticiones, msg, resp, horaAlternativa, antes,
                    pipeRecibe, fdPipeAgente, agentes, intruso >>

\* generarReporte: pthread_mutex_lock(&mutexEstadisticas).
generarReporteLockEstadisticas ==
    /\ pcMain = "reporte_estadisticas"
    /\ pthread_mutex_lock("mutexEstadisticas", "main")
    /\ pcMain' = "reportando"
    /\ UNCHANGED << config, hOcupacion, horaActual, ocupacionPorHora, reservas,
                    agentesRegistrados, estadisticas, finalizarServidor,
                    pcReloj, pcPeticiones, msg, resp, horaAlternativa, antes,
                    pipeRecibe, fdPipeAgente, agentes, intruso >>

\* generarReporte lee e imprime, y suelta los dos mutex.
generarReporteDentro ==
    /\ pcMain = "reportando"
    /\ mutex' = [mutex EXCEPT !["mutexEstadisticas"] = "libre",
                              !["mutexReservas"] = "libre"]
    /\ pcMain' = "limpiar"
    /\ UNCHANGED << config, hOcupacion, horaActual, ocupacionPorHora, reservas,
                    agentesRegistrados, estadisticas, finalizarServidor,
                    pcReloj, pcPeticiones, msg, resp, horaAlternativa, antes,
                    pipeRecibe, fdPipeAgente, agentes, intruso >>

NextCerrojo ==
    \/ RelojBucle /\ UNCHANGED canal
    \/ avanzarHoraLock /\ UNCHANGED canal
    \/ avanzarHoraIncremento /\ UNCHANGED canal
    \/ avanzarHoraActivar /\ UNCHANGED canal
    \/ avanzarHoraDesactivar /\ UNCHANGED canal
    \/ imprimirEstadoHoraLock /\ UNCHANGED canal
    \/ imprimirEstadoHora /\ UNCHANGED canal
    \/ PeticionesBucle /\ UNCHANGED canal
    \/ SelectTimeout /\ UNCHANGED canal
    \/ LeerRegistro /\ UNCHANGED canal
    \/ LeerSolicitud /\ UNCHANGED canal
    \/ PeticionesLock /\ UNCHANGED canal
    \/ registrarAgenteDentro /\ UNCHANGED canal
    \/ negarDentro /\ UNCHANGED canal
    \/ verificarDentro /\ UNCHANGED canal
    \/ contarAceptadaDentro /\ UNCHANGED canal
    \/ buscarDentro /\ UNCHANGED canal
    \/ contarReprogramadaDentro /\ UNCHANGED canal
    \/ anotarReserva /\ UNCHANGED canal
    \/ ocuparHora /\ UNCHANGED canal
    \/ contarReserva /\ UNCHANGED canal
    \/ enviarRespuesta /\ UNCHANGED canal
    \/ MainJoinReloj
    \/ MainMarcar
    \/ MainCancelar
    \/ CancelacionCerrojo
    \/ MainJoinPeticiones
    \/ generarReporteLockReservas
    \/ generarReporteLockEstadisticas
    \/ generarReporteDentro
    \/ limpiarRecursos

\* El controlador con sus tres mutex a la vista, sin senales externas.
SpecCerrojo == InitCerrojo /\ [][NextCerrojo]_vars

(***************************************************************************)
(* Propiedades                                                             *)
(***************************************************************************)
\* La respuesta a una solicitud de reserva esta construida y a punto de
\* escribirse en el pipe del agente.
RespuestaDeReserva ==
    pcPeticiones = "enviar" /\ msg.tipo = "MSG_SOLICITUD_RESERVA"

Ocupacion(ocup, h) == ocup[indiceHora(h)]

\* C1. Sin sobrecupo: en todo estado alcanzable, tras cualquier secuencia de
\* mensajes atendidos y de avances del reloj, ninguna hora del rango
\* [HORAS_MIN, HORAS_MAX] tiene mas personas comprometidas que aforoMaximo.
C1_SinSobrecupo ==
    \A h \in HORAS_MIN..HORAS_MAX :
        Ocupacion(ocupacionPorHora, h) <= aforoMaximo

\* Dos reservas han llenado una hora exactamente hasta el aforo.
C1_Testigo ==
    /\ numReservas = 2
    /\ \E h \in HORAS_MIN..HORAS_MAX :
          Ocupacion(ocupacionPorHora, h) = aforoMaximo

\* C2. Monotonia: la ocupacion de cada hora no disminuye en ningun paso,
\* sea cual sea el numero de personas (cualquier entero) de las solicitudes.
C2_OcupacionNoDecrece ==
    [][\A h \in HORAS_MIN..HORAS_MAX :
          Ocupacion(ocupacionPorHora', h) >= Ocupacion(ocupacionPorHora, h)]_vars

\* C3. Toda solicitud cuya hora esta fuera de [HORAS_MIN, HORAS_MAX] recibe
\* RESP_RESERVA_NEGADA, para todo numero de personas y toda hora actual.
C3_FueraDeRangoNegada ==
    (RespuestaDeReserva /\ ~(msg.horaSolicitada \in HORAS_MIN..HORAS_MAX))
        => resp.tipo = "RESP_RESERVA_NEGADA"

\* Una solicitud para las 6:00 de un grupo que cabe, con el parque vacio.
C3_Testigo ==
    /\ RespuestaDeReserva
    /\ msg.horaSolicitada = HORAS_MIN - 1
    /\ msg.numPersonas \in 1..aforoMaximo
    /\ numReservas = 0
    /\ resp.tipo = "RESP_RESERVA_NEGADA"

\* C4. Toda solicitud cuyo numero de personas supera aforoMaximo recibe
\* RESP_RESERVA_NEGADA, para toda hora solicitada y toda hora actual.
C4_ExcedeAforoNegada ==
    (RespuestaDeReserva /\ msg.numPersonas > aforoMaximo)
        => resp.tipo = "RESP_RESERVA_NEGADA"

\* Un grupo mayor que el aforo pide una hora valida y no pasada cuando una
\* reserva anterior dejo la ocupacion de esa hora en negativo.
C4_Testigo ==
    /\ RespuestaDeReserva
    /\ msg.numPersonas > aforoMaximo
    /\ msg.horaSolicitada \in antes.horaActual..horaFinal
    /\ Ocupacion(ocupacionPorHora, msg.horaSolicitada) + msg.numPersonas <= aforoMaximo
    /\ resp.tipo = "RESP_RESERVA_NEGADA"

\* C5. Cuando el resultado de una solicitud es RESP_RESERVA_NEGADA, por
\* cualquiera de sus cinco motivos, no cambia ninguna ocupacion ni se crea
\* ninguna reserva: el unico cambio es solicitudesNegadas + 1.
C5_NegadaNoModifica ==
    (RespuestaDeReserva /\ resp.tipo = "RESP_RESERVA_NEGADA")
        => /\ ocupacionPorHora = antes.ocupacionPorHora
           /\ SinActiva(reservas) = antes.reservas
           /\ solicitudesNegadas = antes.negadas + 1
           /\ solicitudesAceptadas = antes.aceptadas
           /\ solicitudesReprogramadas = antes.reprogramadas

\* Una solicitud no extemporanea negada por falta de cupo en todo el periodo,
\* con una reserva ya anotada.
C5_Testigo ==
    /\ RespuestaDeReserva
    /\ resp.tipo = "RESP_RESERVA_NEGADA"
    /\ resp.mensaje = "SIN_DISPONIBILIDAD"
    /\ numReservas = 1

\* Toda hora de la reserva de DURACION_RESERVA horas que empieza en h esta en
\* el rango de operacion y admite a n personas mas.
VentanaCabe(ocup, h, n) ==
    \A x \in h..(h + DURACION_RESERVA - 1) :
        /\ x \in HORAS_MIN..HORAS_MAX
        /\ Ocupacion(ocup, x) + n <= aforoMaximo

\* Alguna hora de esa reserva no admite a n personas mas.
VentanaSinCupo(ocup, h, n) ==
    \E x \in h..(h + DURACION_RESERVA - 1) :
        /\ x \in HORAS_MIN..HORAS_MAX
        /\ Ocupacion(ocup, x) + n > aforoMaximo

\* Horas de inicio validas desde la hora desde hasta el final de la jornada.
HorasValidas(ocup, desde, n) ==
    { h \in desde..(horaFinal - DURACION_RESERVA + 1) : VentanaCabe(ocup, h, n) }

Minimo(S) == CHOOSE x \in S : \A y \in S : x <= y

\* La solicitud paso las validaciones de rango y de aforo.
SolicitudValida ==
    /\ RespuestaDeReserva
    /\ msg.horaSolicitada \in HORAS_MIN..HORAS_MAX
    /\ msg.numPersonas <= aforoMaximo

\* La solicitud valida no es extemporanea ni cae despues de horaFinal.
SolicitudATiempo ==
    /\ SolicitudValida
    /\ msg.horaSolicitada >= antes.horaActual
    /\ msg.horaSolicitada <= horaFinal

\* La respuesta es una reprogramacion a la primera hora valida desde la hora en
\* que se hizo la busqueda, con la reserva anotada en esa hora, o una negacion
\* si no hay ninguna hora valida.
ReprogramadaALaPrimeraONegada ==
    LET V == HorasValidas(antes.ocupacionPorHora, antes.horaBusqueda, msg.numPersonas)
        r == buscarHoraAlternativa(antes.ocupacionPorHora, antes.horaBusqueda,
                                   msg.numPersonas)
    IN IF V # {}
       THEN /\ resp.tipo = "RESP_RESERVA_REPROG"
            /\ r.encontrada
            /\ resp.horaAsignada = r.hora
            /\ resp.horaAsignada = Minimo(V)
            /\ numReservas = Len(antes.reservas) + 1
            /\ reservas[numReservas].horaInicio = Minimo(V)
            /\ \A x \in HORAS_MIN..HORAS_MAX :
                  Ocupacion(ocupacionPorHora, x) =
                     Ocupacion(antes.ocupacionPorHora, x)
                        + (IF x \in Minimo(V)..(Minimo(V) + DURACION_RESERVA - 1)
                           THEN msg.numPersonas ELSE 0)
       ELSE /\ resp.tipo = "RESP_RESERVA_NEGADA"
            /\ ~r.encontrada

\* C6. Una solicitud con hora en [7, 19], numero de personas <= aforoMaximo,
\* no extemporanea y con hora <= horaFinal se aprueba en la hora solicitada
\* exactamente cuando ocupacion + personas <= aforoMaximo en cada una de las
\* dos horas {solicitada, solicitada + 1} de la reserva.
C6_AprobadaSiiVentanaCabe ==
    SolicitudATiempo
        => ((resp.tipo = "RESP_RESERVA_OK" /\ resp.horaAsignada = msg.horaSolicitada)
              <=> VentanaCabe(antes.ocupacionPorHora, msg.horaSolicitada,
                              msg.numPersonas))

\* C7. Una solicitud extemporanea (hora valida, personas <= aforoMaximo, hora
\* solicitada < hora actual) nunca se aprueba: se reprograma a la hora que
\* devuelve buscarHoraAlternativa desde la hora actual si existe, y si no
\* se niega.
C7_ExtemporaneaReprogramadaONegada ==
    (SolicitudValida /\ msg.horaSolicitada < antes.horaActual)
        => /\ resp.tipo # "RESP_RESERVA_OK"
           /\ ReprogramadaALaPrimeraONegada

\* Con la hora actual ocupada, una solicitud para una hora ya pasada se
\* reprograma a una hora posterior a la actual.
C7_Testigo ==
    /\ SolicitudValida
    /\ msg.horaSolicitada < antes.horaActual
    /\ resp.tipo = "RESP_RESERVA_REPROG"
    /\ resp.horaAsignada > antes.horaBusqueda
    /\ Ocupacion(ocupacionPorHora, resp.horaAsignada) = msg.numPersonas

\* C8. Una solicitud a tiempo cuya ventana en la hora solicitada no tiene
\* cupo se reprograma a la primera hora valida que buscarHoraAlternativa
\* encuentra desde la hora actual (que puede ser anterior a la solicitada),
\* y se niega si no hay ninguna.
C8_SinCupoReprogramadaONegada ==
    (SolicitudATiempo
       /\ VentanaSinCupo(antes.ocupacionPorHora, msg.horaSolicitada, msg.numPersonas))
        => ReprogramadaALaPrimeraONegada

\* Aforo 100 y 50 personas en las horas 10 y 11: la solicitud de 60 personas
\* para las 10 se reprograma a las 12 y deja 60 personas en las horas 12 y 13.
C8_Testigo ==
    /\ SolicitudATiempo
    /\ aforoMaximo = 100
    /\ Ocupacion(antes.ocupacionPorHora, 10) = 50
    /\ Ocupacion(antes.ocupacionPorHora, 11) = 50
    /\ msg.horaSolicitada = 10
    /\ msg.numPersonas = 60
    /\ resp.tipo = "RESP_RESERVA_REPROG"
    /\ resp.horaAsignada = 12
    /\ Ocupacion(ocupacionPorHora, 12) = 60
    /\ Ocupacion(ocupacionPorHora, 13) = 60

\* C9. Primera hora: buscarHoraAlternativa(n) devuelve h si y solo si h es la
\* menor hora de [hora actual, horaFinal - DURACION_RESERVA + 1] tal que h y
\* h + 1 estan en [7, 19] y admiten a n personas mas, y no encuentra hora si
\* y solo si no existe ninguna; asi es tambien la hora que la solicitud en
\* curso lleva a una reserva.
C9_PrimeraHoraValida ==
    /\ \A n \in Personas :
          LET V == HorasValidas(ocupacionPorHora, horaActual, n)
              r == buscarHoraAlternativa(ocupacionPorHora, horaActual, n)
          IN /\ r.encontrada <=> V # {}
             /\ r.encontrada => r.hora = Minimo(V)
    /\ pcPeticiones \in {"reservar_extemporanea", "reservar_reprogramada"}
          => LET V == HorasValidas(ocupacionPorHora, antes.horaBusqueda,
                                   msg.numPersonas)
             IN V # {} /\ horaAlternativa = Minimo(V)

\* La busqueda descarto dos horas de inicio antes de encontrar una valida.
C9_Testigo ==
    /\ pcPeticiones = "reservar_reprogramada"
    /\ horaAlternativa = antes.horaBusqueda + 2

\* C10. Cuando la hora actual es la hora final configurada y llega una
\* solicitud para esa misma hora con un numero de personas que cabe en el
\* aforo, la solicitud se niega, no se crea ninguna reserva y no cambia
\* ninguna ocupacion.
C10_HoraFinalNegada ==
    (RespuestaDeReserva
       /\ antes.horaActual = horaFinal
       /\ msg.horaSolicitada = horaFinal
       /\ msg.numPersonas \in 1..aforoMaximo
       /\ Ocupacion(antes.ocupacionPorHora, horaFinal) + msg.numPersonas <= aforoMaximo)
        => /\ resp.tipo = "RESP_RESERVA_NEGADA"
           /\ SinActiva(reservas) = antes.reservas
           /\ ocupacionPorHora = antes.ocupacionPorHora

\* El paso que deja lista una respuesta de aprobacion o de reprogramacion.
Anotada ==
    /\ pcPeticiones # "enviar"
    /\ pcPeticiones' = "enviar"
    /\ resp'.tipo \in {"RESP_RESERVA_OK", "RESP_RESERVA_REPROG"}

\* C11. Toda aprobacion o reprogramacion con hora asignada a anade exactamente
\* una reserva (familia, agente, horaInicio = a, horaFin = a + 1, personas,
\* inactiva) y suma el numero de personas a los contadores de a y de a + 1,
\* sin tocar ningun otro contador ni ninguna reserva anterior.
C11_EfectoDeAnotar ==
    [][Anotada =>
          LET a == resp'.horaAsignada
              n == msg.numPersonas
          IN /\ reservas' = Append(reservas,
                    [nombreFamilia |-> msg.nombreFamilia,
                     nombreAgente |-> msg.nombreAgente,
                     horaInicio |-> a, horaFin |-> a + 1,
                     numPersonas |-> n, activa |-> FALSE])
             /\ a + 1 <= HORAS_MAX
             /\ \A h \in HORAS_MIN..HORAS_MAX :
                   Ocupacion(ocupacionPorHora', h) =
                      Ocupacion(ocupacionPorHora, h)
                         + (IF h \in {a, a + 1} THEN n ELSE 0)]_vars

\* El mismo efecto cuando la ventana asignada termina dentro del rango 7-19.
C11_EfectoDentroDelRango ==
    [][(Anotada /\ resp'.horaAsignada < HORAS_MAX) =>
          LET a == resp'.horaAsignada
              n == msg.numPersonas
          IN /\ reservas' = Append(reservas,
                    [nombreFamilia |-> msg.nombreFamilia,
                     nombreAgente |-> msg.nombreAgente,
                     horaInicio |-> a, horaFin |-> a + 1,
                     numPersonas |-> n, activa |-> FALSE])
             /\ \A h \in HORAS_MIN..HORAS_MAX :
                   Ocupacion(ocupacionPorHora', h) =
                      Ocupacion(ocupacionPorHora, h)
                         + (IF h \in {a, a + 1} THEN n ELSE 0)]_vars

TotalSolicitudes ==
    solicitudesNegadas + solicitudesAceptadas + solicitudesReprogramadas

\* Contador que corresponde a cada tipo de respuesta a una solicitud.
Contadas(tipo) ==
    [negadas |-> IF tipo = "RESP_RESERVA_NEGADA" THEN 1 ELSE 0,
     aceptadas |-> IF tipo = "RESP_RESERVA_OK" THEN 1 ELSE 0,
     reprogramadas |-> IF tipo = "RESP_RESERVA_REPROG" THEN 1 ELSE 0]

\* El oyente no tiene una solicitud a medio decidir.
SinSolicitudPorDecidir ==
    pcPeticiones \in {"abrir", "bucle", "select", "eof", "enviar", "escribir",
                      "terminado"}

\* C12. Cada solicitud de reserva atendida suma 1 a exactamente uno de los
\* tres contadores, el que corresponde al tipo de la respuesta que se envia;
\* los contadores solo cambian mientras se atiende una solicitud de reserva
\* (no con registros, fines de agente, tipos desconocidos ni lecturas cortas)
\* y de uno en uno; y su suma es el numero de solicitudes atendidas.
C12_UnContadorPorSolicitud ==
    /\ [](RespuestaDeReserva =>
            /\ resp.tipo \in {"RESP_RESERVA_NEGADA", "RESP_RESERVA_OK",
                              "RESP_RESERVA_REPROG"}
            /\ solicitudesNegadas = antes.negadas + Contadas(resp.tipo).negadas
            /\ solicitudesAceptadas = antes.aceptadas + Contadas(resp.tipo).aceptadas
            /\ solicitudesReprogramadas =
                  antes.reprogramadas + Contadas(resp.tipo).reprogramadas)
    /\ [][estadisticas' # estadisticas =>
             /\ msg'.tipo = "MSG_SOLICITUD_RESERVA"
             /\ TotalSolicitudes' = TotalSolicitudes + 1]_vars
    /\ [](SinSolicitudPorDecidir => TotalSolicitudes = antes.leidas)

\* Segunda solicitud atendida, con un contador distinto del de la primera, y
\* con un registro de agente atendido antes.
C12_Testigo ==
    /\ RespuestaDeReserva
    /\ resp.tipo = "RESP_RESERVA_REPROG"
    /\ solicitudesReprogramadas = 1
    /\ solicitudesNegadas = 1
    /\ numAgentes = 1
    /\ antes.leidas = 2

\* msg es un registro de agente o una solicitud de reserva en curso.
EnAtencion == msg.tipo \in {"MSG_REGISTRO", "MSG_SOLICITUD_RESERVA"}

\* Este paso escribe resp, y nada mas, en el pipe que nombra msg.
Escrita ==
    \E a \in AgentesCanal :
       /\ PipeDe(a) = msg.pipeRespuesta
       /\ agentes'[a].buzon = Append(agentes[a].buzon, resp)

EnvioEnEspera == pcPeticiones = "enviar" /\ ~ENABLED enviarAbrir

\* C14. Un agente lento no detiene al controlador: cuando la respuesta esta
\* lista, enviarla es una operacion acotada que el oyente puede completar sin
\* esperar a que el agente abra su pipe de respuesta.
C14_EnvioSinEsperarAlAgente == ~EnvioEnEspera

\* C15. Al acabar la jornada, finalizarServidor solo se pone a 1 cuando ha
\* pasado el tiempo de gracia de main, y durante ese tiempo el oyente sigue
\* en su bucle.
C15_CierreTrasLaGracia ==
    pcMain \in {"join_reloj", "gracia"} =>
       /\ ~finalizarServidor
       /\ pcPeticiones # "terminado"

\* El agente a recibio una respuesta en este paso.
RecibeRespuesta(a) == Len(agentes'[a].buzon) > Len(agentes[a].buzon)

C16_ReporteAlFinal ==
    /\ <>(pcMain \in {"limpiar", "fin"})
    /\ [](pcMain \in {"reporte", "limpiar", "fin"} =>
             /\ pcReloj = "terminado"
             /\ pcPeticiones \in {"terminado", "cancelado"})
    /\ [][pcMain = "reporte" =>
             UNCHANGED << horaActual, ocupacionPorHora, reservas,
                          agentesRegistrados, estadisticas, pcReloj,
                          pcPeticiones, msg, resp >>]_vars

\* El reporte se ha generado despues de cancelar al oyente, que esperaba en
\* el open del pipe de un agente.
C16_Testigo ==
    /\ pcMain = "limpiar"
    /\ pcPeticiones = "cancelado"
    /\ resp.tipo # ""
    /\ fdPipeAgente = <<>>

LeeMalformado ==
    /\ pcPeticiones = "select"
    /\ pipeRecibe.datos # <<>>
    /\ Len(pipeRecibe'.datos) < Len(pipeRecibe.datos)
    /\ LET r == Head(pipeRecibe.datos)
       IN \/ ~r.completo /\ Len(pipeRecibe.datos) = 1
          \/ r.completo /\ r.m.tipo \notin {"MSG_REGISTRO", "MSG_SOLICITUD_RESERVA",
                                             "MSG_FIN_AGENTE"}

\* C19. Una lectura corta o un registro de tipo desconocido no se despacha:
\* no cambia contadores de ocupacion, reservas, agentes registrados ni
\* estadisticas, no produce respuesta y el oyente vuelve a su bucle.
C19_MalformadoNoSeDespacha ==
    [][LeeMalformado =>
          /\ UNCHANGED << ocupacionPorHora, reservas, agentesRegistrados,
                          estadisticas, msg, resp, fdPipeAgente >>
          /\ \A a \in AgentesCanal : agentes'[a].buzon = agentes[a].buzon
          /\ pcPeticiones' = "bucle"]_vars

\* El intruso ha escrito, el oyente lo ha leido y sigue en su bucle, sin que
\* ningun agente haya empezado.
C19_Testigo ==
    /\ intruso = "hecho"
    /\ pipeRecibe.datos = <<>>
    /\ pcPeticiones = "select"
    /\ ~finalizarServidor
    /\ \A a \in AgentesCanal : agentes[a] = AgenteInicial(Archivos[a])

\* C20. En toda salida del proceso, normal o por error, el pipe que el
\* proceso creo ya no existe: el de entrada cuando acaba el controlador, el
\* de respuesta cuando acaba cada agente.
C20_PipesEliminados ==
    /\ pcMain = "fin" => ~pipeRecibe.existe
    /\ \A a \in AgentesCanal :
          agentes[a].pc \in {"terminado", "fallo"} => ~agentes[a].pipe

\* Lo que procesarSolicitudReserva decide para msg a partir de lo observado
\* al leerlo y al buscar, sin mirar quien lo envia ni el registro de agentes.
DecisionSinRegistro ==
    LET h == msg.horaSolicitada
        n == msg.numPersonas
        negada == [tipo |-> "RESP_RESERVA_NEGADA", hora |-> Indeterminado]
        b == buscarHoraAlternativa(antes.ocupacionPorHora, antes.horaBusqueda, n)
        busqueda == IF b.encontrada
                    THEN [tipo |-> "RESP_RESERVA_REPROG", hora |-> b.hora]
                    ELSE negada
    IN CASE ~validarHora(h) \/ n > aforoMaximo -> negada
         [] h < antes.horaActual -> busqueda
         [] h > horaFinal -> negada
         [] verificarDisponibilidad(antes.ocupacionPorHora, h, n) ->
               [tipo |-> "RESP_RESERVA_OK", hora |-> h]
         [] OTHER -> busqueda

\* C21. numAgentes nunca pasa de MAX_AGENTES; un MSG_REGISTRO que llega con
\* el registro lleno no cambia el registro y se responde con RESP_HORA_ACTUAL;
\* y las solicitudes de reserva se deciden igual para el agente que no cupo
\* que para uno registrado.
C21_RegistroLleno ==
    /\ [](numAgentes <= MAX_AGENTES)
    /\ [][(pcPeticiones = "select" /\ msg'.tipo = "MSG_REGISTRO"
             /\ numAgentes = MAX_AGENTES)
             => /\ agentesRegistrados' = agentesRegistrados
                /\ resp'.tipo = "RESP_HORA_ACTUAL"
                /\ resp'.horaActual = horaActual
                /\ pcPeticiones' = "enviar"]_vars
    /\ [](RespuestaDeReserva =>
             /\ resp.tipo = DecisionSinRegistro.tipo
             /\ resp.horaAsignada = DecisionSinRegistro.hora)

\* Con el registro lleno, el agente que no cupo recibe la reprogramacion de
\* una solicitud que al primer agente se le aprobo.
C21_Testigo ==
    /\ RespuestaDeReserva
    /\ numAgentes = MAX_AGENTES
    /\ msg.nombreAgente = AgenteSinSitio
    /\ \A i \in 1..numAgentes : agentesRegistrados[i].nombre # AgenteSinSitio
    /\ resp.tipo = "RESP_RESERVA_REPROG"
    /\ numReservas = 2
    /\ reservas[1].nombreAgente = 1

\* C22. Cuando el open del FIFO de entrada no puede completarse porque el
\* controlador no lo tiene abierto para leer, el agente no se queda esperando:
\* el intento retorna, para reintentar un numero acotado de veces o terminar.
C22_AperturaSinEsperaIndefinida ==
    \A a \in AgentesCanal :
        agentes[a].pc = "enviar_abrir" => ENABLED AgenteAbre(a)

\* Personas anotadas en las reservas de rs cuya ventana contiene la hora x.
RECURSIVE PersonasEn(_, _)
PersonasEn(rs, x) ==
    IF rs = <<>> THEN 0
    ELSE (IF Head(rs).horaInicio <= x /\ x <= Head(rs).horaFin
          THEN Head(rs).numPersonas ELSE 0) + PersonasEn(Tail(rs), x)

\* Los contadores de todas las horas coinciden con las reservas anotadas.
Consistente ==
    \A x \in HORAS_MIN..HORAS_MAX :
        Ocupacion(ocupacionPorHora, x) = PersonasEn(reservas, x)

\* Otro codigo que toma mutexReservas esta dentro de su seccion critica: el
\* reloj en avanzarHora o imprimirEstadoHora, main en generarReporte, o el
\* oyente en verificarDisponibilidad o buscarHoraAlternativa.
Observando ==
    \/ pcReloj \in {"avanzar", "activar", "desactivar", "imprimiendo"}
    \/ pcMain \in {"reporte_estadisticas", "reportando"}
    \/ pcPeticiones \in {"verificar_dentro", "buscar_dentro"}

\* El oyente esta dentro de la seccion critica que anota una reserva.
Anotando == pcPeticiones \in {"anotar", "ocupar"}

\* C23. Las anotaciones son atomicas para quien toma mutexReservas: mientras
\* el reloj, las comprobaciones de disponibilidad o el reporte estan en su
\* seccion critica no hay ninguna anotacion a medias y los contadores
\* coinciden con las reservas; y los contadores y los registros solo cambian
\* dentro de la anotacion, con el mutex tomado por el oyente.
C23_AnotacionAtomica ==
    /\ [](Observando => ~Anotando /\ Consistente)
    /\ [](Anotando => mutex["mutexReservas"] = "peticiones")
    /\ [][(ocupacionPorHora' # ocupacionPorHora
              \/ SinActiva(reservas') # SinActiva(reservas))
             => /\ Anotando
                /\ mutex["mutexReservas"] = "peticiones"
                /\ UNCHANGED << horaActual, pcReloj, pcMain, msg >>]_vars

\* Una anotacion a medias (una hora contada, la otra no) mientras el reloj ha
\* acabado su sleep y espera el mutex para avanzar la hora.
C23_Testigo ==
    /\ pcPeticiones = "ocupar"
    /\ hOcupacion = HoraDeReserva + 1
    /\ ~Consistente
    /\ pcReloj = "durmiendo"
    /\ numReservas = 1

\* Posiciones en que el oyente hace E/S sobre un pipe: select y read del FIFO
\* de entrada, open, write y close del pipe de respuesta, y open y close del
\* FIFO de entrada.
PosicionesDeCanal == {"abrir", "select", "eof", "enviar", "escribir"}

\* C24. Ningun hilo tiene tomado un mutex mientras hace E/S sobre un pipe: el
\* oyente no tiene ninguno en sus posiciones de E/S, y el reloj y main, que
\* no hacen E/S sobre pipes, solo los tienen dentro de avanzarHora,
\* imprimirEstadoHora y generarReporte.
C24_SinMutexEnElCanal ==
    /\ pcPeticiones \in PosicionesDeCanal =>
          \A m \in Mutexes : mutex[m] # "peticiones"
    /\ (\E m \in Mutexes : mutex[m] = "reloj") =>
          pcReloj \in {"avanzar", "activar", "desactivar", "imprimiendo"}
    /\ (\E m \in Mutexes : mutex[m] = "main") =>
          pcMain \in {"reporte_estadisticas", "reportando"}

\* El oyente envia la respuesta de una reserva mientras el reloj tiene
\* mutexReservas.
C24_Testigo ==
    /\ pcPeticiones = "enviar"
    /\ resp.tipo = "RESP_RESERVA_OK"
    /\ mutex["mutexReservas"] = "reloj"
    /\ \A m \in Mutexes : mutex[m] # "peticiones"

\* C25. horaActual empieza en horaInicial; solo la cambia el hilo del reloj,
\* de uno en uno, en un paso en que el oyente no se mueve; nunca disminuye; y
\* siempre esta entre horaInicial y horaFinal + 1.
C25_HoraActual ==
    /\ horaActual = horaInicial
    /\ [](horaInicial <= horaActual /\ horaActual <= horaFinal + 1)
    /\ [][horaActual' # horaActual =>
             /\ horaActual' = horaActual + 1
             /\ pcReloj = "durmiendo"
             /\ pcReloj' = "bucle"
             /\ UNCHANGED << pcPeticiones, msg, resp, antes, ocupacionPorHora,
                             estadisticas >>]_vars

\* El reloj ha llegado a horaFinal + 1 con dos solicitudes atendidas por el
\* camino y sin que nadie lo interrumpiera.
C25_Testigo ==
    /\ horaActual = horaFinal + 1
    /\ pcReloj = "terminado"
    /\ numReservas = 2
    /\ horaFinal - horaInicial = 3

\* El reloj esta entre horaActual++ y el final de sus dos bucles.
EnAvance == pcReloj \in {"activar", "desactivar"}

\* C26. Al acabar cada avance, toda reserva que empieza en la nueva hora
\* esta activa y toda reserva que termino antes de ella esta inactiva; y
\* fuera de un avance, una reserva activa tiene la hora actual dentro de su
\* ventana.
C26_ActivasEnSuVentana ==
    /\ [][(pcReloj = "desactivar" /\ pcReloj' # "desactivar") =>
             \A i \in 1..Len(reservas') :
                /\ reservas'[i].horaInicio = horaActual' => reservas'[i].activa
                /\ reservas'[i].horaFin < horaActual' => ~reservas'[i].activa]_vars
    /\ [](~EnAvance =>
             \A i \in 1..numReservas :
                reservas[i].activa =>
                   /\ reservas[i].horaInicio <= horaActual
                   /\ horaActual <= reservas[i].horaFin)

\* Acabado el dia, una reserva que estuvo activa de 18 a 19 ya no lo esta.
C26_Testigo ==
    /\ horaActual = horaFinal + 1
    /\ pcReloj = "imprimir"
    /\ \E i \in 1..numReservas :
          /\ reservas[i].horaInicio = horaFinal - 1
          /\ reservas[i].horaFin = horaFinal
          /\ ~reservas[i].activa

\* El hilo del reloj da un paso.
PasoDelReloj == pcReloj' # pcReloj

\* C27. Un avance del reloj solo cambia horaActual y los campos activa: no
\* toca contadores de ocupacion, numReservas, estadisticas ni otros campos;
\* una reserva anotada no se borra ni cambia de familia, agente, hora de
\* inicio, hora de fin (= inicio + 1) o personas; y su campo activa solo lo
\* cambia el reloj.
C27_MarcoDelReloj ==
    /\ [][PasoDelReloj =>
             /\ UNCHANGED << ocupacionPorHora, estadisticas, agentesRegistrados,
                             config >>
             /\ SinActiva(reservas') = SinActiva(reservas)]_vars
    /\ [][/\ Len(reservas') >= Len(reservas)
          /\ \A i \in 1..Len(reservas) :
                /\ SinActiva(reservas')[i] = SinActiva(reservas)[i]
                /\ reservas[i].activa # reservas'[i].activa => PasoDelReloj]_vars
    /\ [](\A i \in 1..numReservas :
             reservas[i].horaFin = reservas[i].horaInicio + 1)

\* Hay dos reservas anotadas; el reloj ha activado y desactivado la primera
\* y tiene activa la segunda.
C27_Testigo ==
    /\ numReservas = 2
    /\ ~reservas[1].activa
    /\ reservas[1].horaFin < horaActual
    /\ reservas[1].horaInicio > horaInicial
    /\ reservas[2].activa
    /\ pcReloj = "bucle"

\* C29. En todo estado que no esta dentro de una anotacion, para cada hora h
\* de [7, 19] el contador ocupacionPorHora[h] es la suma de numPersonas de
\* las reservas cuya ventana [horaInicio, horaFin] contiene a h.
C29_ContadoresYReservas ==
    ~Anotando => Consistente

\* Fuera de una anotacion hay una reserva en la ultima hora, cuya ventana
\* termina fuera de la tabla, y otra que ocupa la misma hora.
C29_Testigo ==
    /\ ~Anotando
    /\ numReservas = 2
    /\ \E i \in 1..numReservas : reservas[i].horaFin > HORAS_MAX
    /\ Ocupacion(ocupacionPorHora, HORAS_MAX) > 30

\* C30. Toda reserva anotada cae entera dentro del horario: HORAS_MIN <=
\* horaInicio y horaFin = horaInicio + 1 <= min(HORAS_MAX, horaFinal), tanto
\* si fue aprobada como si fue reprogramada y para toda hora final.
C30_ReservaDentroDelHorario ==
    \A i \in 1..numReservas :
        /\ HORAS_MIN <= reservas[i].horaInicio
        /\ reservas[i].horaFin = reservas[i].horaInicio + 1
        /\ reservas[i].horaFin <= Minimo({HORAS_MAX, horaFinal})

\* El oyente esta dentro de enviarRespuesta.
EnEnvio == pcPeticiones \in {"enviar", "escribir"}

\* El hilo oyente ya no existe: retorno o fue cancelado.
OyenteAcabado == pcPeticiones \in {"terminado", "cancelado"}

C31_ReservaNoPasada ==
    [][Len(reservas') > Len(reservas) =>
          reservas'[Len(reservas')].horaInicio >= horaActual']_vars

\* Ni el reloj esta dentro de los bucles de avanzarHora ni el oyente dentro
\* de una anotacion.
FueraDeAvanceYAnotacion == ~EnAvance /\ ~Anotando

\* C32. Toda reserva esta activa durante su ventana: en todo estado fuera de
\* un avance o de una anotacion, cada reserva con horaInicio <= horaActual <=
\* horaFin tiene activa = 1, tambien las anotadas con hora de inicio igual a
\* la hora que ya corre.
C32_ActivaEnSuVentana ==
    FueraDeAvanceYAnotacion =>
       \A i \in 1..numReservas :
          (reservas[i].horaInicio <= horaActual /\ horaActual <= reservas[i].horaFin)
             => reservas[i].activa

\* C33. Ninguna solicitud se pierde en la reapertura por fin de datos: un
\* registro completo que un agente escribio en el FIFO de entrada mientras el
\* servidor no esta finalizando solo sale del FIFO cuando el oyente lo lee
\* para atenderlo, bajo todo entrelazado de open/write/close del agente con
\* la lectura del fin de datos, el close y la reapertura del oyente.
C33_NingunaSolicitudPerdida ==
    [][(/\ ~finalizarServidor
        /\ pipeRecibe.datos # <<>>
        /\ Head(pipeRecibe.datos).completo
        /\ pipeRecibe'.datos # pipeRecibe.datos
        /\ Len(pipeRecibe'.datos) <= Len(pipeRecibe.datos))
          => /\ pcPeticiones = "select"
             /\ pipeRecibe'.datos = Tail(pipeRecibe.datos)
             /\ Head(pipeRecibe.datos).m.tipo \in {"MSG_REGISTRO", "MSG_SOLICITUD_RESERVA"}
                   => msg' = Head(pipeRecibe.datos).m]_vars

\* C34. El arreglo de reservas nunca se desborda: numReservas nunca pasa de
\* la capacidad del arreglo y ningun registro se escribe en un indice fuera
\* de el (al escribir, numReservas es menor que la capacidad).
C34_AlmacenSinDesborde ==
    /\ [](numReservas <= CapacidadReservas)
    /\ [][Len(reservas') > Len(reservas) =>
             Len(reservas) < CapacidadReservas]_vars

\* Mutexes que tiene tomados un hilo.
Tomados(hilo) == {m \in Mutexes : mutex[m] = hilo}

\* C35. La disciplina de cerrojos no se bloquea y sobrevive a la cancelacion:
\* ni el reloj ni el oyente tienen nunca dos mutexes a la vez; en todo punto
\* en que el oyente puede ser cancelado o puede salir, y una vez acabado, no
\* tiene ninguno; y generarReporte encuentra libres los dos que toma, los
\* toma en su orden y termina.
C35_DisciplinaDeCerrojos ==
    /\ Cardinality(Tomados("reloj")) <= 1
    /\ Cardinality(Tomados("peticiones")) <= 1
    /\ pcPeticiones \in PuntosDeCancelacionCerrojo \cup {"terminado", "cancelado"}
          => Tomados("peticiones") = {}
    /\ pcReloj = "terminado" => Tomados("reloj") = {}
    /\ pcMain = "reporte" => ENABLED generarReporteLockReservas
    /\ pcMain = "reporte_estadisticas" =>
          /\ Tomados("main") = {"mutexReservas"}
          /\ ENABLED generarReporteLockEstadisticas
    /\ pcMain = "reportando" =>
          /\ Tomados("main") = {"mutexReservas", "mutexEstadisticas"}
          /\ ENABLED generarReporteDentro
    /\ pcMain \in {"limpiar", "fin"} => \A m \in Mutexes : mutex[m] = "libre"

\* generarReporte tiene sus dos mutexes despues de que el oyente, que llego
\* a anotar una reserva, fuera cancelado.
C35_Testigo ==
    /\ pcMain = "reportando"
    /\ Tomados("main") = {"mutexReservas", "mutexEstadisticas"}
    /\ pcPeticiones = "cancelado"
    /\ numReservas >= 1

\* C36. El tipo de respuesta lo determina el tipo de mensaje: a MSG_REGISTRO
\* solo se contesta RESP_HORA_ACTUAL; a MSG_SOLICITUD_RESERVA solo
\* RESP_RESERVA_OK, RESP_RESERVA_REPROG o RESP_RESERVA_NEGADA; a
\* MSG_FIN_AGENTE (y a lo que no es un mensaje conocido) no se contesta; el
\* controlador nunca envia RESP_FIN_DIA; y una RESP_RESERVA_OK lleva como
\* hora asignada la hora solicitada.
C36_RespuestaSegunMensaje ==
    /\ [](resp.tipo # "RESP_FIN_DIA")
    /\ [](resp # SinRespuesta => pcPeticiones = "enviar")
    /\ [](pcPeticiones = "enviar" =>
             /\ msg.tipo \in {"MSG_REGISTRO", "MSG_SOLICITUD_RESERVA"}
             /\ msg.tipo = "MSG_REGISTRO" => resp.tipo = "RESP_HORA_ACTUAL"
             /\ msg.tipo = "MSG_SOLICITUD_RESERVA" =>
                   resp.tipo \in {"RESP_RESERVA_OK", "RESP_RESERVA_REPROG",
                                  "RESP_RESERVA_NEGADA"}
             /\ resp.tipo = "RESP_RESERVA_OK" =>
                   resp.horaAsignada = msg.horaSolicitada)
    /\ [][(pcPeticiones = "select" /\ pcPeticiones' = "bucle")
             => resp' = SinRespuesta]_vars

\* Ya se contesto un registro y ahora se contesta una solicitud reprogramada
\* a una hora distinta de la pedida.
C36_Testigo ==
    /\ pcPeticiones = "enviar"
    /\ msg.tipo = "MSG_SOLICITUD_RESERVA"
    /\ resp.tipo = "RESP_RESERVA_REPROG"
    /\ resp.horaAsignada # msg.horaSolicitada
    /\ numAgentes = 1
=============================================================================
